---- MODULE Spec2Model ----
(***************************************************************************)
(* A model of the step-driven interpreter of acorn_interpreter.js          *)
(* (Interpreter, lines 1929-5443): the frame stack, the object/scope heap, *)
(* the step handlers, step(), run(), appendCode() and the asynchronous     *)
(* function bridge.  Guest values are tagged records, guest objects live   *)
(* in a heap indexed by object id, frames are maps from field names to     *)
(* values (a missing field reads as JavaScript's undefined).               *)
(***************************************************************************)
EXTENDS Integers, Sequences, FiniteSets, TLC

VARIABLES
  stack,    \* this.stateStack
  heap,     \* the guest objects and scopes, by object id
  paused_,  \* this.paused_
  value,    \* this.value
  ast,      \* this.ast (the object that is also the root frame's node)
  log,      \* the calls the host's native bindings have seen, in order
  cbs,      \* per completion callback handed to the host: was it called
  host,     \* how the host functions answer
  roots,    \* this.OBJECT, this.FUNCTION, this.ERROR, ...: the built-ins, by name
  op,       \* the last call of the host into the interpreter
  ret,      \* what that call returned or threw
  drive     \* what has driven the interpreter since construction

vars == <<stack, heap, paused_, value, ast, log, cbs, host, roots, op, ret, drive>>

(***************************************************************************)
(* Bounds of the model.                                                    *)
(***************************************************************************)
MaxHeap == 100
MaxRunSteps == 160
MaxAppends == 1
MaxLog == 8
MaxCallbacks == 2
MaxPolyfillSteps == 32

(***************************************************************************)
(* Guest values (Interpreter.Value): a tag and a payload.                  *)
(***************************************************************************)
Undef == [t |-> "undefined", v |-> 0]
Null == [t |-> "null", v |-> 0]
Bool(b) == [t |-> "boolean", v |-> b]
Num(n) == [t |-> "number", v |-> n]
Str(s) == [t |-> "string", v |-> s]
Obj(i) == [t |-> "object", v |-> i]
SCOPE_REFERENCE == [t |-> "SCOPE_REFERENCE", v |-> 0]
VALUE_IN_DESCRIPTOR == [t |-> "VALUE_IN_DESCRIPTOR", v |-> 0]
\* The two-element array [base, name] a frame with `components` returns.
Ref(base, name) == [t |-> "ref", v |-> <<base, name>>]

\* The number NaN (kept apart from the integers the model computes with).
NaNValue == [t |-> "nan", v |-> 0]

IsObj(v) == v.t = "object"
IsRef(v) == v.t = "ref"

\* JavaScript truthiness of a guest value (objects and references are truthy).
Truthy(v) ==
  CASE v.t = "undefined" -> FALSE
    [] v.t = "null" -> FALSE
    [] v.t = "boolean" -> v.v
    [] v.t = "number" -> v.v # 0
    [] v.t = "string" -> v.v # ""
    [] v.t = "nan" -> FALSE
    [] OTHER -> TRUE

Digits == <<"0", "1", "2", "3", "4", "5", "6", "7", "8", "9">>

RECURSIVE NumToStr(_)
NumToStr(n) ==
  IF n < 0 THEN "-" \o NumToStr(0 - n)
  ELSE IF n < 10 THEN Digits[n + 1]
  ELSE NumToStr(n \div 10) \o Digits[(n % 10) + 1]

(***************************************************************************)
(* Maps with string keys (properties, getter, setter, frames).             *)
(***************************************************************************)
MapPut(m, k, x) == (k :> x) @@ m
MapDel(m, k) == [y \in (DOMAIN m) \ {k} |-> m[y]]
Has(m, k) == k \in DOMAIN m

(***************************************************************************)
(* Property descriptors handed to setProperty.                             *)
(***************************************************************************)
NoDescriptor == [absent |-> TRUE]
HasDescriptor(d) == ~Has(d, "absent")
EmptyDescriptor == <<>>
READONLY_DESCRIPTOR == [configurable |-> TRUE, enumerable |-> TRUE, writable |-> FALSE]
NONENUMERABLE_DESCRIPTOR == [configurable |-> TRUE, enumerable |-> FALSE, writable |-> TRUE]
READONLY_NONENUMERABLE_DESCRIPTOR == [configurable |-> TRUE, enumerable |-> FALSE, writable |-> FALSE]
VARIABLE_DESCRIPTOR == [configurable |-> FALSE, enumerable |-> TRUE, writable |-> TRUE]

(***************************************************************************)
(* Host exceptions.  NoExc: the call returned; STEP_ERROR: the sentinel    *)
(* thrown after a guest exception was put on the stack; anything else is   *)
(* a real host exception of class cls carrying msg.                        *)
(***************************************************************************)
NoExc == [cls |-> "", msg |-> ""]
STEP_ERROR == [cls |-> "STEP_ERROR", msg |-> ""]
HostError(cls, msg) == [cls |-> cls, msg |-> msg]
\* The outcome of a host call whose loop never ends.
Diverges == HostError("(does not return)", "")

(***************************************************************************)
(* Completion types.                                                       *)
(***************************************************************************)
NORMAL == 0
BREAK == 1
CONTINUE == 2
RETURN == 3
THROW == 4

(***************************************************************************)
(* AST nodes.  `end` is the end offset acorn records; stripLocations_      *)
(* deletes it from polyfill nodes (modelled as 0).                         *)
(***************************************************************************)
NoNode == [type |-> "none", end |-> 0]
IsNode(n) == n.type # "none"
Literal(v) == [type |-> "Literal", end |-> 1, value |-> v]
Identifier(n) == [type |-> "Identifier", end |-> 1, name |-> n]
MemberExpression(o, p) ==
  [type |-> "MemberExpression", end |-> 1, object |-> o, property |-> Identifier(p), computed |-> FALSE]
CallExpression(c, a) == [type |-> "CallExpression", end |-> 1, callee |-> c, arguments |-> a]
NewExpression(c, a) == [type |-> "NewExpression", end |-> 1, callee |-> c, arguments |-> a]
AssignmentExpression(o, l, r) ==
  [type |-> "AssignmentExpression", end |-> 1, operator |-> o, left |-> l, right |-> r]
BinaryExpression(o, l, r) ==
  [type |-> "BinaryExpression", end |-> 1, operator |-> o, left |-> l, right |-> r]
ExpressionStatement(e) == [type |-> "ExpressionStatement", end |-> 1, expression |-> e]
VariableDeclarator(n, i) == [type |-> "VariableDeclarator", end |-> 1, id |-> Identifier(n), init |-> i]
VariableDeclaration(d) == [type |-> "VariableDeclaration", end |-> 1, declarations |-> d]
BlockStatement(b) == [type |-> "BlockStatement", end |-> 1, body |-> b]
ReturnStatement(a) == [type |-> "ReturnStatement", end |-> 1, argument |-> a]
ThrowStatement(a) == [type |-> "ThrowStatement", end |-> 1, argument |-> a]
FunctionExpression(p, b) ==
  [type |-> "FunctionExpression", end |-> 1, id |-> NoNode, params |-> p, body |-> BlockStatement(b)]
FunctionDeclaration(n, p, b) ==
  [type |-> "FunctionDeclaration", end |-> 1, id |-> Identifier(n), params |-> p, body |-> BlockStatement(b)]
Property(k, kind, val) == [type |-> "Property", key |-> Identifier(k), kind |-> kind, value |-> val]
CatchClause(p, b) == [type |-> "CatchClause", end |-> 1, param |-> Identifier(p), body |-> BlockStatement(b)]
TryStatement(b, h) ==
  [type |-> "TryStatement", end |-> 1, block |-> BlockStatement(b), handler |-> h, finalizer |-> NoNode]
ObjectExpression(p) == [type |-> "ObjectExpression", end |-> 1, properties |-> p]
\* o[p], for a property expression p
ComputedMember(o, p) ==
  [type |-> "MemberExpression", end |-> 1, object |-> o, property |-> p, computed |-> TRUE]
UpdateExpression(o, p, a) ==
  [type |-> "UpdateExpression", end |-> 1, operator |-> o, prefix |-> p, argument |-> a]
UnaryExpression(o, a) == [type |-> "UnaryExpression", end |-> 1, operator |-> o, argument |-> a]
ArrayExpression(e) == [type |-> "ArrayExpression", end |-> 1, elements |-> e]
ForInStatement(l, r, b) == [type |-> "ForInStatement", end |-> 1, left |-> l, right |-> r, body |-> b]
WithStatement(o, b) == [type |-> "WithStatement", end |-> 1, object |-> o, body |-> b]
ThisExpression == [type |-> "ThisExpression", end |-> 1]
\* label "" stands for a statement without label (node.label is null).
BreakStatement(l) == [type |-> "BreakStatement", end |-> 1, label |-> l]
ContinueStatement(l) == [type |-> "ContinueStatement", end |-> 1, label |-> l]
LabeledStatement(l, b) == [type |-> "LabeledStatement", end |-> 1, label |-> l, body |-> b]
WhileStatement(t, b) == [type |-> "WhileStatement", end |-> 1, test |-> t, body |-> b]
DoWhileStatement(b, t) == [type |-> "DoWhileStatement", end |-> 1, test |-> t, body |-> b]
ForStatement(i, t, u, b) ==
  [type |-> "ForStatement", end |-> 1, init |-> i, test |-> t, update |-> u, body |-> b]
IfStatement(t, c, a) ==
  [type |-> "IfStatement", end |-> 1, test |-> t, consequent |-> c, alternate |-> a]
\* test NoNode makes the default clause.
SwitchCase(t, c) == [type |-> "SwitchCase", end |-> 1, test |-> t, consequent |-> c]
SwitchStatement(d, c) == [type |-> "SwitchStatement", end |-> 1, discriminant |-> d, cases |-> c]
TryFinally(b, h, f) ==
  [type |-> "TryStatement", end |-> 1, block |-> BlockStatement(b), handler |-> h,
   finalizer |-> BlockStatement(f)]
LogicalExpression(o, l, r) ==
  [type |-> "LogicalExpression", end |-> 1, operator |-> o, left |-> l, right |-> r]
\* acorn gives a Program the end offset of its source text: 0 for "".
Program(b) == [type |-> "Program", end |-> (IF b = <<>> THEN 0 ELSE 1), body |-> b]

\* The properties of a node that hold a list of nodes, and those that hold
\* a node.
NodeLists(node) ==
  {"arguments", "declarations", "params", "properties", "elements", "cases"}
  \cup (IF node.type \in {"BlockStatement", "Program"} THEN {"body"} ELSE {})
  \cup (IF node.type = "SwitchCase" THEN {"consequent"} ELSE {})
NodeFields(node) ==
  ({"callee", "left", "right", "expression", "id", "init", "argument", "object", "property",
    "key", "param", "block", "handler", "finalizer", "test", "consequent", "alternate",
    "discriminant", "update", "body"} \ NodeLists(node))
  \cup (IF node.type = "Property" THEN {"value"} ELSE {})
\* Interpreter.prototype.stripLocations_(node, undefined, undefined)
RECURSIVE stripLocations_(_)
stripLocations_(node) ==
  LET all(nodes) == [i \in 1..Len(nodes) |-> stripLocations_(nodes[i])]
  IN  [name \in DOMAIN node |->
         IF name = "end" THEN 0
         ELSE IF name \in NodeLists(node) THEN all(node[name])
         ELSE IF name \in NodeFields(node) THEN stripLocations_(node[name])
         ELSE node[name]]

(***************************************************************************)
(* Frames (Interpreter.State): maps from field name to value.              *)
(***************************************************************************)
NoState == [none |-> TRUE]
IsState(s) == Has(s, "node")
State(node, scope) == [node |-> node, scope |-> scope]
Val(s, k) == IF Has(s, k) THEN s[k] ELSE Undef
Flag(s, k) == Has(s, k) /\ s[k]
Cnt(s, k) == IF Has(s, k) THEN s[k] ELSE 0

(***************************************************************************)
(* Guest objects (Interpreter.Object).  Descriptor bits of a property are  *)
(* kept as three sets of names; a function's node / nativeFunc / asyncFunc *)
(* and a scope's parentScope / strict are fields of the same record.  keys *)
(* is the order in which the names of `properties` were created, which the *)
(* host's Object.getOwnPropertyNames and for-in observe.                   *)
(***************************************************************************)
Object(proto) ==
  [proto |-> proto, properties |-> <<>>, keys |-> <<>>, getter |-> <<>>, setter |-> <<>>,
   notConfigurable |-> {}, notEnumerable |-> {}, notWritable |-> {},
   class |-> "Object", data |-> Null, preventExtensions |-> FALSE,
   node |-> NoNode, parentScope |-> Null, strict |-> FALSE,
   nativeFunc |-> "", asyncFunc |-> "", illegalConstructor |-> FALSE,
   isGetter |-> FALSE, eval |-> FALSE]

(***************************************************************************)
(* The interpreter as one record I, so that the methods can be written as  *)
(* operators from interpreter to interpreter: stack (stateStack), heap,    *)
(* paused_, value, log (the calls the host's native bindings observed),    *)
(* cbs (the completion callbacks handed to the host), host (how the host   *)
(* answers), roots (this.OBJECT, this.ERROR, ...), booting (true while the *)
(* constructor runs and this.stateStack is still undefined).               *)
(* Every method returns [I, val, exc, next]: the interpreter afterwards,   *)
(* the value returned, the exception thrown (NoExc if none) and, for step  *)
(* handlers, the frame to push.                                            *)
(***************************************************************************)
R(I, v) == [I |-> I, val |-> v, exc |-> NoExc, next |-> NoState]
Raise(I, e) == [I |-> I, val |-> Undef, exc |-> e, next |-> NoState]
Push(I, s) == [I |-> I, val |-> Undef, exc |-> NoExc, next |-> s]
Failed(r) == r.exc # NoExc

\* this[method](...a), defined below once the methods are.
RECURSIVE invoke(_, _, _)

Root(I, n) == IF Has(I.roots, n) THEN Obj(I.roots[n]) ELSE Undef
Top(I) == I.stack[Len(I.stack)]
Pop(I) == [I EXCEPT !.stack = SubSeq(@, 1, Len(@) - 1)]
SetTop(I, k, x) == [I EXCEPT !.stack[Len(I.stack)] = MapPut(@, k, x)]
\* stack.pop(); stack[stack.length - 1].value = x
PopReturn(I, x) == SetTop(Pop(I), "value", x)
Prop(I, id, n) == IF Has(I.heap[id].properties, n) THEN I.heap[id].properties[n] ELSE Undef

\* Interpreter.prototype.getPrototype
getPrototype(I, v) ==
  CASE v.t = "number" -> Prop(I, I.roots.NUMBER, "prototype")
    [] v.t = "boolean" -> Prop(I, I.roots.BOOLEAN, "prototype")
    [] v.t = "string" -> Prop(I, I.roots.STRING, "prototype")
    [] v.t = "object" -> I.heap[v.v].proto
    [] OTHER -> Null

RECURSIVE ChainHas(_, _, _)
ChainHas(I, child, proto) ==
  IF ~IsObj(child) THEN FALSE
  ELSE IF child = proto THEN TRUE
  ELSE ChainHas(I, I.heap[child.v].proto, proto)

\* Interpreter.prototype.isa
isa(I, child, constructor) ==
  IF child.t \in {"null", "undefined"} \/ ~IsObj(constructor) THEN FALSE
  ELSE LET proto == Prop(I, constructor.v, "prototype")
       IN  child = proto \/ ChainHas(I, getPrototype(I, child), proto)

MaxIndex == 9
NaN == 0 - 1
\* Interpreter.legalArrayIndex on a property name; NaN when it is no index.
legalArrayIndex(name) ==
  IF \E n \in 0..MaxIndex : NumToStr(n) = name
  THEN CHOOSE n \in 0..MaxIndex : NumToStr(n) = name
  ELSE NaN

\* Interpreter.legalArrayLength on a guest value.
legalArrayLength(x) ==
  CASE x.t = "number" -> IF x.v >= 0 THEN x.v ELSE NaN
    [] x.t = "string" -> legalArrayIndex(x.v)
    [] x.t = "boolean" -> IF x.v THEN 1 ELSE 0
    [] x.t = "null" -> 0
    [] OTHER -> NaN

\* The object that holds `name` on the chain of v (0 if none): the
\* do/while walk shared by getProperty, hasProperty and setProperty.
RECURSIVE Holder(_, _, _)
Holder(I, v, name) ==
  IF IsObj(v) /\ Has(I.heap[v.v].properties, name) THEN v.v
  ELSE LET p == getPrototype(I, v)
       IN  IF IsObj(p) THEN Holder(I, p, name) ELSE 0

\* String(x) of a primitive.
PrimitiveToString(x) ==
  CASE x.t = "string" -> x.v
    [] x.t = "number" -> NumToStr(x.v)
    [] x.t = "boolean" -> IF x.v THEN "true" ELSE "false"
    [] x.t = "nan" -> "NaN"
    [] OTHER -> x.t

\* Interpreter.Object.prototype.toString and String(x) of a guest value x.
\* cycles is Interpreter.toStringCycles_ (object ids, oldest first); calls
\* holds <<object, cycles>> of every toString call this one is nested in:
\* a call that comes again with the same cycles never returns, and the host
\* ends it with a RangeError for its call stack.  The result is [val, exc].
RECURSIVE toString(_, _, _, _)
\* strs.join(','): the host's join gives '' for undefined and null.
RECURSIVE JoinAll(_, _, _, _)
JoinAll(I, strs, cycles, calls) ==
  IF strs = <<>> THEN [val |-> "", exc |-> NoExc]
  ELSE LET first == IF Head(strs) \in {Undef, Null} THEN [val |-> "", exc |-> NoExc]
                    ELSE toString(I, Head(strs), cycles, calls)
           rest == JoinAll(I, Tail(strs), cycles, calls)
       IN  IF first.exc # NoExc THEN first
           ELSE IF rest.exc # NoExc THEN rest
           ELSE [val |-> first.val \o (IF Len(strs) > 1 THEN "," ELSE "") \o rest.val,
                 exc |-> NoExc]

toString(I, x, cycles, calls) ==
  LET o == I.heap[x.v]
      OnStack(v, seen) == IsObj(v) /\ \E j \in 1..Len(seen) : seen[j] = v.v
      nested == calls \cup {<<x.v, cycles>>}
      \* Array
      strs == [i \in 1..o.properties["length"].v |->
                 IF OnStack(Prop(I, x.v, NumToStr(i - 1)), Append(cycles, x.v)) THEN Str("...")
                 ELSE Prop(I, x.v, NumToStr(i - 1))]
      \* Error
      nh == Holder(I, x, "name")
      mh == Holder(I, x, "message")
      name == IF nh = 0 THEN Undef ELSE I.heap[nh].properties["name"]
      message == IF mh = 0 THEN Undef ELSE I.heap[mh].properties["message"]
      \* name && name.toString()
      text(y) == IF Truthy(y) THEN toString(I, y, Append(cycles, x.v), nested)
                 ELSE [val |-> PrimitiveToString(y), exc |-> NoExc]
      error(n, m) ==
        IF n.exc # NoExc THEN n
        ELSE IF m.exc # NoExc THEN m
        ELSE [val |-> IF Truthy(message) /\ m.val # "" THEN n.val \o ": " \o m.val ELSE n.val,
              exc |-> NoExc]
  IN  IF ~IsObj(x) THEN [val |-> PrimitiveToString(x), exc |-> NoExc]
      ELSE IF <<x.v, cycles>> \in calls
      THEN [val |-> "", exc |-> HostError("RangeError", "Maximum call stack size exceeded")]
      ELSE IF o.class = "Array" THEN JoinAll(I, strs, cycles, nested)
      ELSE IF o.class = "Error"
      THEN IF OnStack(x, cycles) THEN [val |-> "[object Error]", exc |-> NoExc]
           ELSE error(text(name), text(message))
      ELSE IF o.data # Null THEN [val |-> PrimitiveToString(o.data), exc |-> NoExc]
      ELSE [val |-> "[object " \o o.class \o "]", exc |-> NoExc]

\* The string of an object for the callers in the interpreter (none of the
\* modelled guest programs converts an array that lies on a cycle).
ObjectToString(I, id) == toString(I, Obj(id), <<>>, {}).val

ToStr(I, x) ==
  CASE x.t = "string" -> x.v
    [] x.t = "number" -> NumToStr(x.v)
    [] x.t = "boolean" -> IF x.v THEN "true" ELSE "false"
    [] x.t = "object" -> ObjectToString(I, x.v)
    [] x.t = "nan" -> "NaN"
    [] OTHER -> x.t


\* Interpreter.prototype.getProperty
getProperty(I, obj, name) ==
  IF obj.t \in {"undefined", "null"}
  THEN invoke(I, "throwException", <<Root(I, "TYPE_ERROR"),
                      Str("Cannot read property '" \o name \o "' of " \o obj.t)>>)
  ELSE IF name = "length" /\ obj.t = "string" /\ isa(I, obj, Root(I, "STRING"))
  THEN R(I, Num(Len(obj.v)))
  ELSE LET h == Holder(I, obj, name)
       IN  IF h = 0 THEN R(I, Undef)
           ELSE IF Has(I.heap[h].getter, name) /\ Truthy(I.heap[h].getter[name])
           THEN \* Flag the function as a getter needing immediate execution.
                LET g == I.heap[h].getter[name]
                IN  R([I EXCEPT !.heap[g.v].isGetter = TRUE], g)
           ELSE R(I, I.heap[h].properties[name])

\* Object.getOwnPropertyNames(obj.properties): the array indices in
\* ascending order, then the other names in the order of their creation.
OwnPropertyNames(o) ==
  LET idx == {legalArrayIndex(k) : k \in DOMAIN o.properties} \ {NaN}
  IN  [j \in 1..Cardinality(idx) |->
         NumToStr(CHOOSE n \in idx : Cardinality({m \in idx : m < n}) = j - 1)]
      \o SelectSeq(o.keys, LAMBDA k : legalArrayIndex(k) = NaN)

\* Interpreter.prototype.hasProperty (obj is an object)
hasProperty(I, obj, name) == Holder(I, obj, name) # 0

\* Interpreter.prototype.getScope: the scope of the top frame.
getScope(I) == Top(I).scope

(***************************************************************************)
(* The host's Object.defineProperty(obj.properties, name, descriptor) on   *)
(* the property table: attributes absent from the descriptor default to    *)
(* false on a new property and are kept on an existing one; a change that  *)
(* a non-configurable property forbids is rejected (ok = FALSE).           *)
(***************************************************************************)
DefineOwn(o, name, d) ==
  LET bit(k) == Has(d, k) /\ d[k]
      upd(set, k) == IF ~Has(d, k) THEN set
                     ELSE IF d[k] THEN set \ {name} ELSE set \cup {name}
  IN  IF ~Has(o.properties, name)
      THEN [ok |-> TRUE,
            o |-> [o EXCEPT
                     !.properties = MapPut(@, name, IF Has(d, "value") THEN d.value ELSE Undef),
                     !.keys = Append(@, name),
                     !.notConfigurable = IF bit("configurable") THEN @ \ {name} ELSE @ \cup {name},
                     !.notEnumerable = IF bit("enumerable") THEN @ \ {name} ELSE @ \cup {name},
                     !.notWritable = IF bit("writable") THEN @ \ {name} ELSE @ \cup {name}]]
      ELSE IF /\ name \in o.notConfigurable
              /\ \/ bit("configurable")
                 \/ Has(d, "enumerable") /\ d.enumerable = (name \in o.notEnumerable)
                 \/ /\ name \in o.notWritable
                    /\ \/ bit("writable")
                       \/ Has(d, "value") /\ d.value # o.properties[name]
      THEN [ok |-> FALSE, o |-> o]
      ELSE [ok |-> TRUE,
            o |-> [o EXCEPT
                     !.properties = IF Has(d, "value") THEN MapPut(@, name, d.value) ELSE @,
                     !.notConfigurable = upd(@, "configurable"),
                     !.notEnumerable = upd(@, "enumerable"),
                     !.notWritable = upd(@, "writable")]]

\* The host assignment obj.properties[name] = x of non-strict host code:
\* a write to a non-writable property is dropped without an exception.
AssignOwn(o, name, x) ==
  IF Has(o.properties, name) /\ name \in o.notWritable THEN o
  ELSE [o EXCEPT !.properties = MapPut(@, name, x),
                 !.keys = IF Has(o.properties, name) THEN @ ELSE Append(@, name)]

\* The host's `delete obj.properties[name]` for each name of a set.  The
\* host code is not strict code (its 'use strict' at line 1919 follows the
\* statements of acorn, so it is no directive): deleting a non-configurable
\* property returns false, throws nothing and leaves the property.
DeleteOwn(o, names) ==
  LET gone == {k \in names : Has(o.properties, k) /\ k \notin o.notConfigurable}
  IN  [o EXCEPT !.properties = [k \in (DOMAIN @) \ gone |-> @[k]],
                !.keys = SelectSeq(@, LAMBDA k : k \notin gone),
                !.notEnumerable = @ \ gone,
                !.notWritable = @ \ gone]

\* An Array part of setProperty that forgets the index writes: an element
\* write leaves the length as it was.
ArrayLength_without_raise(o, name, x) ==
  LET n == legalArrayLength(x)
  IN  IF name = "length"
      THEN IF n = NaN THEN [ok |-> FALSE, o |-> o, x |-> x]
           ELSE [ok |-> TRUE, x |-> Num(n),
                 o |-> DeleteOwn(o, {j \in (DOMAIN o.properties) \ o.notEnumerable :
                                       legalArrayIndex(j) # NaN /\ n <= legalArrayIndex(j)})]
      ELSE [ok |-> TRUE, o |-> o, x |-> x]

\* The Array part of setProperty (obj.class === 'Array'): the magic length.
\* Returns the object and the (possibly coerced) value, ok = FALSE for an
\* invalid array length.
ArrayLength(o, name, x) ==
  LET length == o.properties["length"].v
      n == legalArrayLength(x)
      i == legalArrayIndex(name)
  IN  IF name = "length"
      THEN IF n = NaN THEN [ok |-> FALSE, o |-> o, x |-> x]
           ELSE IF n < length
           THEN [ok |-> TRUE, x |-> Num(n),
                 \* for (i in obj.properties): the enumerable names
                 o |-> DeleteOwn(o, {j \in (DOMAIN o.properties) \ o.notEnumerable :
                                       legalArrayIndex(j) # NaN /\ n <= legalArrayIndex(j)})]
           ELSE [ok |-> TRUE, o |-> o, x |-> Num(n)]
      ELSE IF i # NaN
      THEN [ok |-> TRUE, x |-> x,
            o |-> IF "length" \in o.notWritable THEN o
                  ELSE [o EXCEPT !.properties["length"] =
                                   Num(IF length > i + 1 THEN length ELSE i + 1)]]
      ELSE [ok |-> TRUE, o |-> o, x |-> x]

\* The descriptor branch of setProperty up to the native defineProperty:
\* the getter/setter maps and the native descriptor built from opt_descriptor.
DescribeAccessors(o, name, x, d) ==
  LET g1 == IF Has(d, "get")
            THEN IF Truthy(d.get) THEN MapPut(o.getter, name, d.get) ELSE MapDel(o.getter, name)
            ELSE o.getter
      s1 == IF Has(d, "set")
            THEN IF Truthy(d.set) THEN MapPut(o.setter, name, d.set) ELSE MapDel(o.setter, name)
            ELSE o.setter
      drop == Has(d, "writable") \/ Has(d, "value") \/ x # VALUE_IN_DESCRIPTOR
  IN  [o EXCEPT !.getter = IF drop THEN MapDel(g1, name) ELSE g1,
                !.setter = IF drop THEN MapDel(s1, name) ELSE s1]

NativeDescriptor(x, d) ==
  LET keep == {k \in {"configurable", "enumerable", "writable", "value"} : Has(d, k)}
      base == [k \in keep |-> d[k]]
  IN  IF ~Has(d, "value") /\ x # VALUE_IN_DESCRIPTOR THEN MapPut(base, "value", x) ELSE base

\* Interpreter.prototype.setProperty.  val is the setter function to call,
\* or undefined.  (String objects are not part of the modelled heap, so the
\* branch for them is never entered.)
setProperty(I, obj, name, x, d) ==
  LET strict == I.booting \/ I.heap[getScope(I).v].strict
      TypeError(J, message) == invoke(J, "throwException", <<Root(I, "TYPE_ERROR"), Str(message)>>)
      \* Define the property: o1 is the object, x1 the value.
      defined(def) ==
        IF def.ok THEN R([I EXCEPT !.heap[obj.v] = def.o], Undef)
        ELSE TypeError([I EXCEPT !.heap[obj.v] = def.o], "Cannot redefine property: " \o name)
      define(o1, x1) ==
        defined(DefineOwn(DescribeAccessors(o1, name, x1, d), name, NativeDescriptor(x1, d)))
      \* Set the property: d0 is the object on the chain that defines it.
      assigned(I1, o1, x1, d0) ==
        IF Has(d0.setter, name) /\ Truthy(d0.setter[name])
        THEN R(I1, d0.setter[name])
        ELSE IF Has(d0.getter, name) /\ Truthy(d0.getter[name])
        THEN IF strict
             THEN TypeError(I1, "Cannot set property '" \o name \o "' which only has a getter")
             ELSE R(I1, Undef)
        ELSE R([I1 EXCEPT !.heap[obj.v] = AssignOwn(o1, name, x1)], Undef)
      definer(I1, h) == I1.heap[IF h = 0 THEN obj.v ELSE h]
      assign(I1, o1, x1) ==
        IF x1 = VALUE_IN_DESCRIPTOR
        THEN Raise(I1, HostError("ReferenceError", "Value not specified."))
        ELSE assigned(I1, o1, x1, definer(I1, Holder(I1, obj, name)))
      \* After the Array part, which gave the object arr.o and the value arr.x.
      set(arr) ==
        IF ~arr.ok THEN invoke(I, "throwException", <<Root(I, "RANGE_ERROR"), Str("Invalid array length")>>)
        ELSE IF arr.o.preventExtensions /\ ~Has(arr.o.properties, name)
        THEN IF strict
             THEN TypeError([I EXCEPT !.heap[obj.v] = arr.o],
                            "Can't add property '" \o name \o "', object is not extensible")
             ELSE R([I EXCEPT !.heap[obj.v] = arr.o], Undef)
        ELSE IF HasDescriptor(d) THEN define(arr.o, arr.x)
        ELSE assign([I EXCEPT !.heap[obj.v] = arr.o], arr.o, arr.x)
  IN  IF obj.t \in {"undefined", "null"}
      THEN TypeError(I, "Cannot set property '" \o name \o "' of " \o obj.t)
      ELSE IF HasDescriptor(d) /\ (Has(d, "get") \/ Has(d, "set"))
                               /\ (Has(d, "value") \/ Has(d, "writable"))
      THEN TypeError(I, "Invalid property descriptor.")
      ELSE IF ~I.booting /\ I.stack = <<>>
      THEN Raise(I, HostError("TypeError", "Cannot read property 'scope' of undefined"))
      ELSE IF ~IsObj(obj)
      THEN IF strict THEN TypeError(I, "Can't create property '" \o name \o "'")
           ELSE R(I, Undef)
      ELSE set(IF I.heap[obj.v].class = "Array" THEN ArrayLength(I.heap[obj.v], name, x)
               ELSE [ok |-> TRUE, o |-> I.heap[obj.v], x |-> x])

\* Interpreter.prototype.createObjectProto: val is the new object.
createObjectProto(I, proto) ==
  LET id == Len(I.heap) + 1
      obj == Obj(id)
      I1 == [I EXCEPT !.heap = Append(@, Object(proto))]
      I2 == IF isa(I1, obj, Root(I1, "FUNCTION"))
            THEN LET p == invoke(I1, "createObjectProto", <<IF IsObj(Root(I1, "OBJECT_PROTO"))
                                                THEN Root(I1, "OBJECT_PROTO") ELSE Null>>)
                     s == invoke(p.I, "setProperty", <<obj, "prototype", p.val, NoDescriptor>>)
                 IN  [s.I EXCEPT !.heap[id].class = "Function"]
            ELSE I1
      I3 == IF isa(I2, obj, Root(I2, "ARRAY"))
            THEN LET s == invoke(I2, "setProperty", <<obj, "length", Num(0),
                            [configurable |-> FALSE, enumerable |-> FALSE, writable |-> TRUE]>>)
                 IN  [s.I EXCEPT !.heap[id].class = "Array"]
            ELSE I2
      I4 == IF isa(I3, obj, Root(I3, "ERROR"))
            THEN [I3 EXCEPT !.heap[id].class = "Error"]
            ELSE I3
  IN  R(I4, obj)

\* Interpreter.prototype.createObject
createObject(I, constructor) ==
  invoke(I, "createObjectProto", <<IF IsObj(constructor) THEN Prop(I, constructor.v, "prototype")
                       ELSE constructor>>)

\* Interpreter.prototype.createFunction
createFunction(I, node, scope) ==
  LET f == invoke(I, "createObjectProto", <<Root(I, "FUNCTION_PROTO")>>)
      I1 == [f.I EXCEPT !.heap[f.val.v].parentScope = scope,
                        !.heap[f.val.v].node = node]
      s == invoke(I1, "setProperty", <<f.val, "length", Num(Len(node.params)), READONLY_DESCRIPTOR>>)
  IN  R(s.I, f.val)

\* Interpreter.prototype.createNativeFunction; the host function is named
\* by a string.  opt_constructor is "true", "false" or "undefined".
createNativeFunction(I, nativeFunc, length, opt_constructor) ==
  LET f == invoke(I, "createObjectProto", <<Root(I, "FUNCTION_PROTO")>>)
      I1 == [f.I EXCEPT !.heap[f.val.v].nativeFunc = nativeFunc]
      s == invoke(I1, "setProperty", <<f.val, "length", Num(length), READONLY_DESCRIPTOR>>)
      I2 == IF opt_constructor = "true"
            THEN invoke(s.I, "setProperty", <<Prop(s.I, f.val.v, "prototype"), "constructor", f.val,
                             NONENUMERABLE_DESCRIPTOR>>).I
            ELSE IF opt_constructor = "false"
            THEN invoke([s.I EXCEPT !.heap[f.val.v].illegalConstructor = TRUE], "setProperty", <<f.val, "prototype", Undef, NoDescriptor>>).I
            ELSE s.I
  IN  R(I2, f.val)

\* Interpreter.prototype.createAsyncFunction
createAsyncFunction(I, asyncFunc, length) ==
  LET f == invoke(I, "createObjectProto", <<Root(I, "FUNCTION_PROTO")>>)
      I1 == [f.I EXCEPT !.heap[f.val.v].asyncFunc = asyncFunc]
      s == invoke(I1, "setProperty", <<f.val, "length", Num(length), READONLY_DESCRIPTOR>>)
  IN  R(s.I, f.val)

\* Interpreter.prototype.throwException: opt_message is undefined when
\* errorClass is the value to throw.  The call never returns normally: it
\* ends in STEP_ERROR, or in the host exception of an unhandled completion.
throwException(I, errorClass, opt_message) ==
  LET made == IF opt_message = Undef THEN R(I, errorClass)
              ELSE LET e == invoke(I, "createObject", <<errorClass>>)
                   IN  R(invoke(e.I, "setProperty", <<e.val, "message", opt_message,
                                     NONENUMERABLE_DESCRIPTOR>>).I, e.val)
      u == invoke(made.I, "unwind", <<THROW, made.val, "">>)
  IN  IF Failed(u) THEN u ELSE Raise(u.I, STEP_ERROR)

\* errorTable[name] || Error in unwind.  errorTable is an object literal, so
\* a name that Object.prototype defines finds that member instead of Error.
ErrorClasses == {"EvalError", "RangeError", "ReferenceError", "SyntaxError", "TypeError", "URIError"}
ObjectPrototypeMembers ==
  {"constructor", "toString", "toLocaleString", "valueOf", "hasOwnProperty",
   "isPrototypeOf", "propertyIsEnumerable"}
\* realError = type(message): what calling the looked-up member produces.
RealError(name, message) ==
  IF name \in ErrorClasses THEN HostError(name, message)
  ELSE IF name = "constructor" THEN HostError("String object", message)
  ELSE IF name \in {"toString", "toLocaleString"} THEN HostError("string", "[object Undefined]")
  ELSE IF name \in ObjectPrototypeMembers
  THEN HostError("TypeError", "Cannot convert undefined or null to object")
  ELSE HostError("Error", message)

\* The tail of unwind: the stack is empty, throw a real error.
Unhandled(I, x) ==
  IF isa(I, x, Root(I, "ERROR"))
  THEN LET n == invoke(I, "getProperty", <<x, "name">>)
           m == invoke(n.I, "getProperty", <<x, "message">>)
       IN  Raise(m.I, RealError(invoke(m.I, "ToStr", <<n.val>>),
                                IF m.val = Undef THEN "" ELSE invoke(m.I, "ToStr", <<m.val>>)))
  ELSE Raise(I, HostError("string", invoke(I, "ToStr", <<x>>)))

\* An unwind that only a throw makes stop at a TryStatement.
unwind_past_try(I, type, x, label) ==
  IF I.stack = <<>> THEN invoke(I, "Unhandled", <<x>>)
  ELSE
  LET state == Top(I)
      ty == state.node.type
      labelled == Has(state, "labels") /\ \E j \in 1..Len(state.labels) : state.labels[j] = label
  IN  IF ty = "TryStatement" /\ type = THROW
      THEN R(SetTop(I, "cv", [type |-> type, value |-> x, label |-> label]), Undef)
      ELSE IF ty \in {"CallExpression", "NewExpression"} /\ type = RETURN
      THEN R(SetTop(I, "value", x), Undef)
      ELSE IF type = BREAK /\ (IF label # "" THEN labelled
                               ELSE Flag(state, "isLoop") \/ Flag(state, "isSwitch"))
      THEN R(Pop(I), Undef)
      ELSE IF type = CONTINUE /\ (IF label # "" THEN labelled ELSE Flag(state, "isLoop"))
      THEN R(I, Undef)
      ELSE invoke(Pop(I), "unwind", <<type, x, label>>)

\* Interpreter.prototype.unwind (label "" stands for no label).
unwind(I, type, x, label) ==
  IF type = NORMAL
  THEN Raise(I, HostError("TypeError", "Should not unwind for NORMAL completions"))
  ELSE IF I.stack = <<>> THEN invoke(I, "Unhandled", <<x>>)
  ELSE
  LET state == Top(I)
      ty == state.node.type
      labelled == Has(state, "labels") /\ \E j \in 1..Len(state.labels) : state.labels[j] = label
  IN  IF ty = "TryStatement"
      THEN R(SetTop(I, "cv", [type |-> type, value |-> x, label |-> label]), Undef)
      ELSE IF ty \in {"CallExpression", "NewExpression"} /\ type = RETURN
      THEN R(SetTop(I, "value", x), Undef)
      ELSE IF ty \in {"CallExpression", "NewExpression"} /\ type # THROW
      THEN Raise(I, HostError("Error", "Unsynatctic break/continue not rejected by Acorn"))
      ELSE IF type = BREAK /\ (IF label # "" THEN labelled
                               ELSE Flag(state, "isLoop") \/ Flag(state, "isSwitch"))
      THEN R(Pop(I), Undef)
      ELSE IF type = CONTINUE /\ (IF label # "" THEN labelled ELSE Flag(state, "isLoop"))
      THEN R(I, Undef)
      ELSE invoke(Pop(I), "unwind", <<type, x, label>>)

(***************************************************************************)
(* Scopes.                                                                 *)
(***************************************************************************)
GlobalId == 1
Global == Obj(GlobalId)

\* The children populateScope_ recurses into that can hold a declaration
\* (a declaration inside an expression lies inside a FunctionExpression,
\* where the recursion stops).
StatementChildren(node) ==
  CASE node.type \in {"Program", "BlockStatement"} -> node.body
    [] node.type = "ForInStatement" -> <<node.left, node.body>>
    [] node.type = "WithStatement" -> <<node.body>>
    [] node.type = "TryStatement" ->
         <<node.block>> \o (IF IsNode(node.handler) THEN <<node.handler.body>> ELSE <<>>)
                        \o (IF IsNode(node.finalizer) THEN <<node.finalizer>> ELSE <<>>)
    [] node.type \in {"WhileStatement", "DoWhileStatement", "LabeledStatement"} -> <<node.body>>
    [] node.type = "ForStatement" -> <<node.init, node.body>>
    [] node.type = "IfStatement" -> <<node.consequent, node.alternate>>
    [] node.type = "SwitchStatement" -> node.cases
    [] node.type = "SwitchCase" -> node.consequent
    [] OTHER -> <<>>


\* populateScope_ over a list of nodes, left to right.
PopulateAll(I, nodes, scope) ==
  IF nodes = <<>> THEN R(I, Undef)
  ELSE LET r == invoke(I, "populateScope_", <<Head(nodes), scope>>)
       IN  IF Failed(r) THEN r ELSE invoke(r.I, "PopulateAll", <<Tail(nodes), scope>>)

DeclareAll(I, decls, scope) ==
  IF decls = <<>> THEN R(I, Undef)
  ELSE LET r == invoke(I, "setProperty", <<scope, Head(decls).id.name, Undef, VARIABLE_DESCRIPTOR>>)
       IN  IF Failed(r) THEN r ELSE invoke(r.I, "DeclareAll", <<Tail(decls), scope>>)

\* Interpreter.prototype.populateScope_
populateScope_(I, node, scope) ==
  IF node.type = "VariableDeclaration"
  THEN invoke(I, "DeclareAll", <<node.declarations, scope>>)
  ELSE IF node.type = "FunctionDeclaration"
  THEN LET f == invoke(I, "createFunction", <<node, scope>>)
       IN  invoke(f.I, "setProperty", <<scope, node.id.name, f.val, VARIABLE_DESCRIPTOR>>)
  ELSE IF node.type \in {"FunctionExpression", "ExpressionStatement"}
  THEN R(I, Undef)
  ELSE invoke(I, "PopulateAll", <<StatementChildren(node), scope>>)

\* A block that starts with the 'use strict' directive.
StartsStrict(node) ==
  /\ Has(node, "body") /\ node.body # <<>>
  /\ Has(node.body[1], "expression")
  /\ node.body[1].expression.type = "Literal"
  /\ node.body[1].expression.value = Str("use strict")

\* Interpreter.prototype.createScope for a function body (parentScope is
\* an object; the global scope is built by initGlobalScope below).
createScope(I, node, parentScope) ==
  LET c == invoke(I, "createObjectProto", <<Null>>)
      I1 == [c.I EXCEPT !.heap[c.val.v].parentScope = parentScope]
      p == invoke(I1, "populateScope_", <<node, c.val>>)
      strict == I.heap[parentScope.v].strict \/ StartsStrict(node)
  IN  IF Failed(p) THEN p
      ELSE R([p.I EXCEPT !.heap[c.val.v].strict = strict], c.val)

\* Interpreter.prototype.createSpecialScope
createSpecialScope(I, parentScope, opt_scope) ==
  LET c == IF IsObj(opt_scope) THEN R(I, opt_scope) ELSE invoke(I, "createObjectProto", <<Null>>)
  IN  R([c.I EXCEPT !.heap[c.val.v].parentScope = parentScope,
                    !.heap[c.val.v].strict = I.heap[parentScope.v].strict], c.val)

\* The nearest scope below the global one that has `name` as an own
\* property, 0 when the walk reaches the global scope (or the end).
RECURSIVE LocalScopeOf(_, _, _)
LocalScopeOf(I, scope, name) ==
  IF ~IsObj(scope) \/ scope = Global THEN 0
  ELSE IF Has(I.heap[scope.v].properties, name) THEN scope.v
  ELSE LocalScopeOf(I, I.heap[scope.v].parentScope, name)

\* Whether the walk from scope ends at the global scope.
RECURSIVE ReachesGlobal(_, _)
ReachesGlobal(I, scope) ==
  IF ~IsObj(scope) THEN FALSE
  ELSE IF scope = Global THEN TRUE
  ELSE ReachesGlobal(I, I.heap[scope.v].parentScope)

\* Interpreter.prototype.getValueFromScope
getValueFromScope(I, name) ==
  LET scope == getScope(I)
      local == LocalScopeOf(I, scope, name)
      prevNode == Top(I).node
  IN  IF local # 0 THEN R(I, I.heap[local].properties[name])
      ELSE IF ReachesGlobal(I, scope) /\ hasProperty(I, Global, name)
      THEN invoke(I, "getProperty", <<Global, name>>)
      ELSE IF prevNode.type = "UnaryExpression" /\ prevNode.operator = "typeof"
      THEN R(I, Undef)
      ELSE invoke(I, "throwException", <<Root(I, "REFERENCE_ERROR"), Str(name \o " is not defined")>>)

\* A setValueToScope that writes every name to the global scope.
setValueToScope_global(I, name, x) ==
  invoke(I, "setProperty", <<Global, name, x, NoDescriptor>>)

\* Interpreter.prototype.setValueToScope
setValueToScope(I, name, x) ==
  LET scope == getScope(I)
      strict == I.heap[scope.v].strict
      local == LocalScopeOf(I, scope, name)
  IN  IF local # 0
      THEN R([I EXCEPT !.heap[local] = AssignOwn(@, name, x)], Undef)
      ELSE IF ReachesGlobal(I, scope) /\ (~strict \/ hasProperty(I, Global, name))
      THEN invoke(I, "setProperty", <<Global, name, x, NoDescriptor>>)
      ELSE invoke(I, "throwException", <<Root(I, "REFERENCE_ERROR"), Str(name \o " is not defined")>>)

\* Interpreter.prototype.getValue
getValue(I, ref) ==
  IF ref.v[1] = SCOPE_REFERENCE
  THEN invoke(I, "getValueFromScope", <<ref.v[2]>>)
  ELSE invoke(I, "getProperty", <<ref.v[1], ref.v[2]>>)

\* Interpreter.prototype.setValue
setValue(I, ref, x) ==
  IF ref.v[1] = SCOPE_REFERENCE
  THEN invoke(I, "setValueToScope", <<ref.v[2], x>>)
  ELSE invoke(I, "setProperty", <<ref.v[1], ref.v[2], x, NoDescriptor>>)

\* The node of a synthetic call: new this.nodeConstructor() with only its
\* type set (no location).
SyntheticCall == [type |-> "CallExpression", end |-> 0]

\* Interpreter.prototype.createGetter_: left is a reference or an object.
\* doneCallee_ = true is neither falsy nor 1, which is how 2 behaves.
createGetter_(I, func, left) ==
  [node |-> SyntheticCall, scope |-> Top(I).scope,
   doneCallee_ |-> 2, funcThis_ |-> (IF IsRef(left) THEN left.v[1] ELSE left),
   func_ |-> func, doneArgs_ |-> TRUE, arguments_ |-> <<>>]

\* Interpreter.prototype.createSetter_
createSetter_(I, func, left, x) ==
  [node |-> SyntheticCall, scope |-> Top(I).scope,
   doneCallee_ |-> 2, funcThis_ |-> (IF IsRef(left) THEN left.v[1] ELSE Global),
   func_ |-> func, doneArgs_ |-> TRUE, arguments_ |-> <<x>>]

(***************************************************************************)
(* Host functions bound into the guest (nativeFunc / asyncFunc), named by  *)
(* strings.  "trace" is the host's instrumented binding: it records its    *)
(* call and returns its first argument.  "setB" and "getB" are native      *)
(* accessor functions the host installs on the object `o`; "setB" returns  *)
(* host.setterReturn.                                                      *)
(***************************************************************************)
Arg(args, i) == IF Len(args) >= i THEN args[i] ELSE Undef
Logged(I, fn, this, args) ==
  [I EXCEPT !.log = Append(@, [fn |-> fn, this |-> this, args |-> args])]

\* Interpreter.prototype.calledWithNew
calledWithNew(I) == Flag(Top(I), "isConstructor")

\* The constructor of Error and of each subclass made by createErrorSubclass.
ErrorConstructor(I, constructor, this, args) ==
  LET made == IF calledWithNew(I) THEN R(I, this) ELSE invoke(I, "createObject", <<constructor>>)
      opt_message == Arg(args, 1)
  IN  IF Truthy(opt_message)
      THEN LET s == invoke(made.I, "setProperty", <<made.val, "message", Str(invoke(made.I, "ToStr", <<opt_message>>)),
                                NONENUMERABLE_DESCRIPTOR>>)
           IN  IF Failed(s) THEN s ELSE R(s.I, made.val)
      ELSE made

ErrorRoot(name) ==
  CASE name = "Error" -> "ERROR"
    [] name = "EvalError" -> "EVAL_ERROR"
    [] name = "RangeError" -> "RANGE_ERROR"
    [] name = "ReferenceError" -> "REFERENCE_ERROR"
    [] name = "SyntaxError" -> "SYNTAX_ERROR"
    [] name = "TypeError" -> "TYPE_ERROR"
    [] name = "URIError" -> "URI_ERROR"

\* The host assignments obj.properties[names[j]] = values[j], in order.
RECURSIVE AssignAll(_, _, _)
AssignAll(o, names, values) ==
  IF names = <<>> THEN o
  ELSE AssignAll(AssignOwn(o, Head(names), Head(values)), Tail(names), Tail(values))

\* The Array constructor (the wrapper of initArray).
ArrayConstructor(I, this, args) ==
  LET made == IF calledWithNew(I) THEN R(I, this)
              ELSE invoke(I, "createObjectProto", <<Root(I, "ARRAY_PROTO")>>)
      first == Arg(args, 1)
      filled(o) == AssignOwn(AssignAll(o, [j \in 1..Len(args) |-> NumToStr(j - 1)], args),
                             "length", Num(Len(args)))
  IN  IF Len(args) = 1 /\ first.t \in {"number", "nan"}
      THEN IF first.t = "nan" \/ legalArrayLength(first) = NaN
           THEN invoke(made.I, "throwException", <<Root(I, "RANGE_ERROR"), Str("Invalid array length")>>)
           ELSE R([made.I EXCEPT !.heap[made.val.v] = AssignOwn(@, "length", first)], made.val)
      ELSE R([made.I EXCEPT !.heap[made.val.v] = filled(@)], made.val)

\* An Object.create that also cuts the given prototype off its own chain.
ObjectCreate_reparenting(I, proto) ==
  LET made == invoke(I, "createObjectProto", <<proto>>)
  IN  IF IsObj(proto) THEN R([made.I EXCEPT !.heap[proto.v].proto = Null], made.val)
      ELSE made

\* Object.create (the wrapper of initObject; the polyfill around it does
\* nothing more when there is no second argument).
ObjectCreate(I, proto) ==
  IF proto = Null THEN invoke(I, "createObjectProto", <<Null>>)
  ELSE IF ~IsObj(proto)
  THEN invoke(I, "throwException", <<Root(I, "TYPE_ERROR"),
                                     Str("Object prototype may only be an Object or null")>>)
  ELSE invoke(I, "createObjectProto", <<proto>>)

\* Object.defineProperty: the polyfill copies the descriptor attributes that
\* d1 has (own or inherited) into a fresh object d2, and the wrapper of
\* initObject hands d2.properties to setProperty, where the host's
\* defineProperty reads the three flags as booleans.  (The polyfill's own
\* frames, scope and d2 are not kept in the heap.)
DescriptorFlags == {"configurable", "enumerable", "writable"}
ObjectDefineProperty(I, obj, prop, d1) ==
  LET name == invoke(I, "ToStr", <<prop>>)
      read(k) == I.heap[Holder(I, d1, k)].properties[k]
      d2 == [k \in {k \in DescriptorFlags \cup {"value", "get", "set"} : hasProperty(I, d1, k)} |->
               IF k \in DescriptorFlags THEN Truthy(read(k)) ELSE read(k)]
      defined(s) == IF Failed(s) THEN s ELSE R(s.I, obj)
      TypeError(message) == invoke(I, "throwException", <<Root(I, "TYPE_ERROR"), Str(message)>>)
  IN  IF ~IsObj(obj) THEN TypeError("Object.defineProperty called on non-object")
      ELSE IF ~IsObj(d1) THEN TypeError("Property description must be an object")
      ELSE IF ~Truthy(Prop(I, obj.v, name)) /\ I.heap[obj.v].preventExtensions
      THEN TypeError("Can't define property '" \o name \o "', object is not extensible")
      ELSE defined(invoke(I, "setProperty", <<obj, name, VALUE_IN_DESCRIPTOR, d2>>))

\* Object.preventExtensions (the wrapper of initObject).
ObjectPreventExtensions(I, obj) ==
  IF IsObj(obj) THEN R([I EXCEPT !.heap[obj.v].preventExtensions = TRUE], obj) ELSE R(I, obj)

\* Object.prototype.isPrototypeOf (the wrapper of initObject): the walk up
\* the chain of obj, which ends at the top of the chain or at `this`.  On a
\* circular chain without `this` the loop would not end (no more than
\* Len(I.heap) objects can lie on a chain that does end).
RECURSIVE PrototypeWalk(_, _, _, _)
PrototypeWalk(I, obj, this, fuel) ==
  LET up == getPrototype(I, obj)
  IN  IF ~IsObj(up) THEN "false"
      ELSE IF up = this THEN "true"
      ELSE IF fuel = 0 THEN "never"
      ELSE PrototypeWalk(I, up, this, fuel - 1)

ObjectIsPrototypeOf(I, this, obj) ==
  LET found == PrototypeWalk(I, obj, this, Len(I.heap))
  IN  IF found = "never" THEN Raise(I, Diverges) ELSE R(I, Bool(found = "true"))

\* Interpreter.prototype.arrayPseudoToNative: val is the native array (a
\* hole reads as undefined).  `for (var key in pseudoArray.properties)` goes
\* through the enumerable names; each getProperty of an accessor property
\* flags the getter it returns, and nothing here clears the flag.
RECURSIVE GetAll(_, _, _)
GetAll(I, obj, names) ==
  IF names = <<>> THEN I
  ELSE GetAll(invoke(I, "getProperty", <<obj, Head(names)>>).I, obj, Tail(names))

arrayPseudoToNative(I, pseudoArray) ==
  LET o == I.heap[pseudoArray.v]
      keys == SelectSeq(OwnPropertyNames(o), LAMBDA k : k \notin o.notEnumerable)
      last == invoke(GetAll(I, pseudoArray, keys), "getProperty", <<pseudoArray, "length">>)
      n == legalArrayLength(last.val)
      element(j) == IF \E i \in 1..Len(keys) : keys[i] = NumToStr(j)
                    THEN invoke(I, "getProperty", <<pseudoArray, NumToStr(j)>>).val
                    ELSE Undef
  IN  R(last.I, [j \in 1..(IF n = NaN THEN 0 ELSE n) |-> element(j - 1)])

\* boxThis of initFunction: in non-strict mode `this` must be an object.
boxThis(I, x) ==
  IF IsObj(x) \/ I.heap[getScope(I).v].strict THEN R(I, x)
  ELSE IF x \in {Undef, Null} THEN R(I, Global)
  ELSE LET box == invoke(I, "createObjectProto", <<getPrototype(I, x)>>)
       IN  R([box.I EXCEPT !.heap[box.val.v].data = x], box.val)

\* Function.prototype.apply (the wrapper of initFunction): it rewrites the
\* current CallExpression frame to apply a different function.
FunctionApply(I, this, thisArg, args) ==
  LET b == boxThis(I, thisArg)
      I1 == SetTop(SetTop(SetTop(b.I, "func_", this), "funcThis_", b.val), "arguments_", <<>>)
      done(J) == R(SetTop(J, "doneExec_", FALSE), Undef)
      listed(l) == done(SetTop(l.I, "arguments_", l.val))
  IN  IF args \in {Null, Undef} THEN done(I1)
      ELSE IF IsObj(args) THEN listed(invoke(I1, "arrayPseudoToNative", <<args>>))
      ELSE invoke(I1, "throwException", <<Root(I, "TYPE_ERROR"),
                       Str("CreateListFromArrayLike called on non-object")>>)

\* func.nativeFunc.apply(state.funcThis_, state.arguments_)
CallNative(I, nativeFunc, this, args) ==
  CASE nativeFunc \in ErrorClasses \cup {"Error"} ->
         invoke(I, "ErrorConstructor", <<Root(I, ErrorRoot(nativeFunc)), this, args>>)
    [] nativeFunc = "Array" -> invoke(I, "ArrayConstructor", <<this, args>>)
    [] nativeFunc = "apply" -> FunctionApply(I, this, Arg(args, 1), Arg(args, 2))
    [] nativeFunc = "create" -> invoke(I, "ObjectCreate", <<Arg(args, 1)>>)
    [] nativeFunc = "defineProperty" ->
         invoke(I, "ObjectDefineProperty", <<Arg(args, 1), Arg(args, 2), Arg(args, 3)>>)
    [] nativeFunc = "preventExtensions" -> ObjectPreventExtensions(I, Arg(args, 1))
    [] nativeFunc = "isPrototypeOf" -> ObjectIsPrototypeOf(I, this, Arg(args, 1))
    [] nativeFunc = "trace" -> R(Logged(I, "trace", this, args), Arg(args, 1))
    [] nativeFunc = "setB" -> R(Logged(I, "setB", this, args), I.host.setterReturn)
    [] nativeFunc = "getB" -> R(Logged(I, "getB", this, args), Num(7))
    [] OTHER -> R(I, Undef)

\* The completion callback without `state.value = value`.
callback_dropping_value(I, k, x) ==
  [I EXCEPT !.paused_ = FALSE,
            !.cbs[k] = TRUE]

\* The completion callback without `self.paused_ = false`.
callback_keeping_pause(I, k, x) ==
  [I EXCEPT !.stack = [j \in 1..Len(@) |->
                         IF Cnt(@[j], "cb_") = k THEN MapPut(@[j], "value", x) ELSE @[j]],
            !.cbs[k] = TRUE]

\* The completion callback of the k-th asynchronous call: it closes over
\* the call's frame (the frame tagged cb_ = k, if it is still on the stack)
\* and over the interpreter.
callback(I, k, x) ==
  [I EXCEPT !.stack = [j \in 1..Len(@) |->
                         IF Cnt(@[j], "cb_") = k THEN MapPut(@[j], "value", x) ELSE @[j]],
            !.paused_ = FALSE,
            !.cbs[k] = TRUE]

\* func.asyncFunc.apply(state.funcThis_, argsWithCallback): the host's
\* `sleep`.  A synchronous host calls the callback before it returns.
CallAsync(I, asyncFunc, this, args, k) ==
  LET I1 == Logged(I, asyncFunc, this, args)
  IN  IF I.host.sync THEN callback(I1, k, I.host.result) ELSE I1

(***************************************************************************)
(* Operators of the guest language on the values the model computes with.  *)
(***************************************************************************)
ParseNumber(str) ==
  IF \E n \in 0..MaxIndex : NumToStr(n) = str THEN Num(legalArrayIndex(str))
  ELSE IF str = "" THEN Num(0) ELSE NaNValue

\* ToNumber of a primitive (an object operand of arithmetic gives NaN here:
\* no modelled object has a numeric valueOf).
ToNumber(x) ==
  CASE x.t = "number" -> x
    [] x.t = "boolean" -> Num(IF x.v THEN 1 ELSE 0)
    [] x.t = "null" -> Num(0)
    [] x.t = "string" -> ParseNumber(x.v)
    [] OTHER -> NaNValue

\* leftValue + rightValue
Plus(I, l, r) ==
  IF l.t \in {"string", "object"} \/ r.t \in {"string", "object"}
  THEN Str(invoke(I, "ToStr", <<l>>) \o invoke(I, "ToStr", <<r>>))
  ELSE LET a == ToNumber(l)
           b == ToNumber(r)
       IN  IF a.t = "nan" \/ b.t = "nan" THEN NaNValue ELSE Num(a.v + b.v)

Arith(operator, l, r) ==
  LET a == ToNumber(l)
      b == ToNumber(r)
  IN  IF a.t = "nan" \/ b.t = "nan" THEN NaNValue
      ELSE CASE operator = "-" -> Num(a.v - b.v)
             [] operator = "*" -> Num(a.v * b.v)

\* The operators of stepBinaryExpression the modelled programs use.
BinaryOperator(I, operator, l, r) ==
  CASE operator = "+" -> Plus(I, l, r)
    [] operator \in {"-", "*"} -> Arith(operator, l, r)
    [] operator = "===" -> Bool(l = r /\ l.t # "nan")
    [] operator = "!==" -> Bool(~(l = r /\ l.t # "nan"))

\* The operators of stepAssignmentExpression the modelled programs use.
AssignmentOperator(I, operator, l, r) ==
  CASE operator = "=" -> r
    [] operator = "+=" -> Plus(I, l, r)
    [] operator \in {"-=", "*="} -> Arith(IF operator = "-=" THEN "-" ELSE "*", l, r)

At(seq, n) == IF n + 1 <= Len(seq) THEN seq[n + 1] ELSE NoNode
IsGetter(I, x) == IsObj(x) /\ I.heap[x.v].isGetter
ClearGetter(I, x) == [I EXCEPT !.heap[x.v].isGetter = FALSE]
Components(s) == MapPut(s, "components", TRUE)

(***************************************************************************)
(* The step handlers.  Each gets the interpreter, the top frame as it was  *)
(* when step() read it, and its node.                                      *)
(***************************************************************************)
stepAssignmentExpression(I, state, node) ==
  IF ~Flag(state, "doneLeft_")
  THEN Push(SetTop(I, "doneLeft_", TRUE), Components(State(node.left, state.scope)))
  ELSE IF ~Flag(state, "doneRight_")
  THEN LET I1 == IF ~Truthy(Val(state, "leftReference_"))
                 THEN SetTop(I, "leftReference_", Val(state, "value")) ELSE I
           I2 == IF Flag(state, "doneGetter_")
                 THEN SetTop(I1, "leftValue_", Val(state, "value")) ELSE I1
           leftReference_ == Top(I2).leftReference_
           right == State(node.right, state.scope)
       IN  IF ~Flag(state, "doneGetter_") /\ node.operator # "="
           THEN LET g == invoke(I2, "getValue", <<leftReference_>>)
                IN  IF Failed(g) THEN g
                    ELSE IF IsGetter(g.I, g.val)
                    THEN \* Clear the getter flag and call the getter function.
                         LET I3 == SetTop(SetTop(ClearGetter(g.I, g.val), "leftValue_", g.val),
                                          "doneGetter_", TRUE)
                         IN  Push(I3, createGetter_(I3, g.val, leftReference_))
                    ELSE Push(SetTop(SetTop(g.I, "leftValue_", g.val), "doneRight_", TRUE), right)
           ELSE Push(SetTop(I2, "doneRight_", TRUE), right)
  ELSE IF Truthy(Val(state, "doneSetter_"))
  THEN \* The setter has completed: ignore its return value.
       R(PopReturn(I, state.doneSetter_), Undef)
  ELSE LET x == invoke(I, "AssignmentOperator", <<node.operator, Val(state, "leftValue_"), Val(state, "value")>>)
           s == invoke(I, "setValue", <<state.leftReference_, x>>)
       IN  IF Failed(s) THEN s
           ELSE IF Truthy(s.val)
           THEN LET I1 == SetTop(s.I, "doneSetter_", x)
                IN  Push(I1, createSetter_(I1, s.val, state.leftReference_, x))
           ELSE R(PopReturn(s.I, x), Undef)

\* stepUpdateExpression once the operand's value is in leftValue_.
UpdateValue(I, state, node) ==
  IF Truthy(Val(state, "doneSetter_"))
  THEN \* The setter has completed: ignore its return value.
       R(PopReturn(I, state.doneSetter_), Undef)
  ELSE IF node.operator \notin {"++", "--"}
  THEN Raise(I, HostError("SyntaxError", "Unknown update expression: " \o node.operator))
  ELSE LET leftValue == ToNumber(state.leftValue_)
           changeValue == IF node.operator = "++" THEN Plus(I, leftValue, Num(1))
                          ELSE Arith("-", leftValue, Num(1))
           returnValue == IF node.prefix THEN changeValue ELSE leftValue
           s == invoke(I, "setValue", <<state.leftSide_, changeValue>>)
       IN  IF Failed(s) THEN s
           ELSE IF Truthy(s.val)
           THEN LET I1 == SetTop(s.I, "doneSetter_", returnValue)
                IN  Push(I1, createSetter_(I1, s.val, state.leftSide_, changeValue))
           ELSE R(PopReturn(s.I, returnValue), Undef)

stepUpdateExpression(I, state, node) ==
  IF ~Flag(state, "doneLeft_")
  THEN Push(SetTop(I, "doneLeft_", TRUE), Components(State(node.argument, state.scope)))
  ELSE LET I1 == IF ~Truthy(Val(state, "leftSide_"))
                 THEN SetTop(I, "leftSide_", Val(state, "value")) ELSE I
       IN  IF Flag(state, "doneGetter_")
           THEN LET I2 == SetTop(I1, "leftValue_", Val(state, "value"))
                IN  UpdateValue(I2, Top(I2), node)
           ELSE LET g == invoke(I1, "getValue", <<Top(I1).leftSide_>>)
                    I2 == SetTop(g.I, "leftValue_", g.val)
                IN  IF Failed(g) THEN g
                    ELSE IF IsGetter(g.I, g.val)
                    THEN \* Clear the getter flag and call the getter function.
                         LET I3 == SetTop(ClearGetter(I2, g.val), "doneGetter_", TRUE)
                         IN  Push(I3, createGetter_(I3, g.val, Top(I1).leftSide_))
                    ELSE UpdateValue(I2, Top(I2), node)

stepBinaryExpression(I, state, node) ==
  IF ~Flag(state, "doneLeft_")
  THEN Push(SetTop(I, "doneLeft_", TRUE), State(node.left, state.scope))
  ELSE IF ~Flag(state, "doneRight_")
  THEN Push(SetTop(SetTop(I, "doneRight_", TRUE), "leftValue_", Val(state, "value")),
            State(node.right, state.scope))
  ELSE R(PopReturn(I, invoke(I, "BinaryOperator", <<node.operator, state.leftValue_, Val(state, "value")>>)),
         Undef)

stepBlockStatement(I, state, node) ==
  LET n == Cnt(state, "n_")
      expression == At(node.body, n)
  IN  IF IsNode(expression)
      THEN Push(SetTop(I, "n_", n + 1), State(expression, state.scope))
      ELSE R(Pop(I), Undef)

\* A catch clause that binds its parameter in the scope of the try statement.
stepCatchClause_in_try_scope(I, state, node) ==
  IF ~Flag(state, "done_")
  THEN LET s == invoke(SetTop(I, "done_", TRUE), "setProperty",
                       <<state.scope, node.param.name, Val(state, "throwValue"), NoDescriptor>>)
       IN  IF Failed(s) THEN s ELSE Push(s.I, State(node.body, state.scope))
  ELSE R(Pop(I), Undef)

stepCatchClause(I, state, node) ==
  IF ~Flag(state, "done_")
  THEN LET c == invoke(SetTop(I, "done_", TRUE), "createSpecialScope", <<state.scope, Undef>>)
           s == invoke(c.I, "setProperty", <<c.val, node.param.name, Val(state, "throwValue"), NoDescriptor>>)
       IN  IF Failed(s) THEN s ELSE Push(s.I, State(node.body, c.val))
  ELSE R(Pop(I), Undef)

stepEmptyStatement(I, state, node) == R(Pop(I), Undef)

stepExpressionStatement(I, state, node) ==
  IF ~Flag(state, "done_")
  THEN Push(SetTop(I, "done_", TRUE), State(node.expression, state.scope))
  ELSE R([Pop(I) EXCEPT !.value = Val(state, "value")], Undef)

\* Step three of stepForInStatement, the loop labelled `done`: f holds
\* object_, props_ (absent when null), visited_ and, once found, name_.
\* (A primitive on the chain has no own names here: no modelled program
\* iterates over a string.)
RECURSIVE FindName(_, _)
\* do { prop = props_.shift() } while (prop && (visited_[prop] || !hasOwn)):
\* the index in props_ at which the loop stops (past the end if nowhere).
ShiftStop(f, o, props_) ==
  LET stops == {j \in 1..Len(props_) :
                  \/ props_[j] = ""
                  \/ ~(props_[j] \in f.visited_ \/ (IsObj(f.object_) /\ ~Has(o.properties, props_[j])))}
  IN  IF stops = {} THEN Len(props_) + 1
      ELSE CHOOSE j \in stops : \A k \in stops : j <= k
\* The frame after the loop stopped with prop (and left rest in props_).
Shifted(I, f, o, prop, rest, visited_) ==
  IF prop # "" /\ (IsObj(f.object_) => prop \notin o.notEnumerable)
  THEN MapPut(MapPut([f EXCEPT !.visited_ = visited_], "name_", prop), "props_", rest)
  ELSE IF getPrototype(I, f.object_) = Null
  THEN [MapDel(f, "props_") EXCEPT !.object_ = Null, !.visited_ = visited_]
  ELSE FindName(I, [MapDel(f, "props_") EXCEPT !.object_ = getPrototype(I, f.object_),
                                                !.visited_ = visited_])
ShiftedAt(I, f, o, props_, at) ==
  IF at <= Len(props_)
  THEN Shifted(I, f, o, props_[at], SubSeq(props_, at + 1, Len(props_)),
               IF props_[at] # "" THEN f.visited_ \cup {props_[at]} ELSE f.visited_)
  ELSE Shifted(I, f, o, "", <<>>, f.visited_)
ShiftFrom(I, f, o, props_) == ShiftedAt(I, f, o, props_, ShiftStop(f, o, props_))
FindName(I, f) ==
  ShiftFrom(I, f, I.heap[f.object_.v],
            IF Has(f, "props_") THEN f.props_
            ELSE IF IsObj(f.object_) THEN OwnPropertyNames(I.heap[f.object_.v])
            ELSE <<>>)

\* The parts of stepForInStatement after its first two, in order.  Each
\* takes and gives [I, f] (the interpreter and the frame as changed so far)
\* and, once the handler has returned, out (what it returned).
ForInReturns(p, r) == [I |-> p.I, f |-> p.f, out |-> r]
ForInTop(I, f) == [I EXCEPT !.stack[Len(I.stack)] = f]
\* First: if (!state.isLoop)
ForInLoop(p) ==
  IF Flag(p.f, "isLoop") THEN p
  ELSE [p EXCEPT !.f = MapPut(MapPut(MapPut(@, "isLoop", TRUE), "object_", Val(@, "value")),
                              "visited_", {})]
\* Third: find the property name for this iteration.
ForInName(p) ==
  LET named(f) == IF f.object_ = Null THEN ForInReturns(p, R(Pop(p.I), Undef))   \* Done, exit loop.
                  ELSE [p EXCEPT !.f = f]
  IN  IF Has(p.f, "name_") THEN p
      ELSE IF p.f.object_ = Undef
      THEN ForInReturns(p, Raise(ForInTop(p.I, p.f),
                                 HostError("TypeError", "Cannot convert undefined or null to object")))
      ELSE named(FindName(p.I, p.f))
\* Fourth: find the variable.
ForInVariable(p, node) ==
  LET left == node.left
      found == MapPut(p.f, "doneVariable_", TRUE)
  IN  IF Has(p, "out") THEN p
      ELSE IF ~Flag(p.f, "doneVariable_")
      THEN IF left.type = "VariableDeclaration"
           THEN [p EXCEPT !.f = MapPut(found, "variable_",
                                       Ref(SCOPE_REFERENCE, left.declarations[1].id.name))]
           ELSE ForInReturns(p, Push(ForInTop(p.I, MapPut(found, "variable_", Null)),
                                     Components(State(left, p.f.scope))))
      ELSE IF Truthy(Val(p.f, "variable_")) THEN p
      ELSE [p EXCEPT !.f = MapPut(@, "variable_", Val(@, "value"))]
\* Fifth: set the variable.
ForInAssign(p) ==
  LET assigned(s) ==
        IF Failed(s) THEN ForInReturns(p, s)
        ELSE IF Truthy(s.val)
        THEN ForInReturns(p, Push(s.I, createSetter_(s.I, s.val, p.f.variable_, Str(p.f.name_))))
        ELSE [I |-> s.I, f |-> Top(s.I)]
  IN  IF Has(p, "out") \/ Flag(p.f, "doneSetter_") THEN p
      ELSE assigned(invoke(ForInTop(p.I, MapPut(p.f, "doneSetter_", TRUE)), "setValue",
                           <<p.f.variable_, Str(p.f.name_)>>))
\* Sixth: execute the body.
ForInBody(p, node) ==
  IF Has(p, "out") THEN p.out
  ELSE Push(ForInTop(p.I, [MapDel(p.f, "name_") EXCEPT !.doneVariable_ = FALSE,
                                                        !.doneSetter_ = FALSE]),
            State(node.body, p.f.scope))

stepForInStatement(I, state, node) ==
  LET left == node.left
      declared == left.type = "VariableDeclaration"
  IN  IF ~Flag(state, "doneInit_") /\ declared /\ IsNode(left.declarations[1].init)
      THEN IF I.heap[state.scope.v].strict
           THEN invoke(SetTop(I, "doneInit_", TRUE), "throwException",
                       <<Root(I, "SYNTAX_ERROR"),
                         Str("for-in loop variable declaration may not have an initializer.")>>)
           ELSE Push(SetTop(I, "doneInit_", TRUE), State(left, state.scope))
      ELSE IF ~Flag(state, "doneObject_")
      THEN Push(ForInTop(I, MapPut(MapPut(MapPut(state, "doneInit_", TRUE), "doneObject_", TRUE),
                                   "variable_",
                                   IF Truthy(Val(state, "variable_")) THEN state.variable_
                                   ELSE Val(state, "value"))),
                State(node.right, state.scope))
      ELSE ForInBody(ForInAssign(ForInVariable(ForInName(ForInLoop(
             [I |-> I, f |-> MapPut(state, "doneInit_", TRUE)])), node)), node)

stepFunctionDeclaration(I, state, node) == R(Pop(I), Undef)

stepFunctionExpression(I, state, node) ==
  LET f == invoke(Pop(I), "createFunction", <<node, state.scope>>)
  IN  R(SetTop(f.I, "value", f.val), Undef)

stepIdentifier(I, state, node) ==
  IF Flag(state, "components")
  THEN R(PopReturn(I, Ref(SCOPE_REFERENCE, node.name)), Undef)
  ELSE LET g == invoke(Pop(I), "getValueFromScope", <<node.name>>)
       IN  IF Failed(g) THEN g
           ELSE IF IsGetter(g.I, g.val)
           THEN LET I1 == ClearGetter(g.I, g.val)
                IN  Push(I1, createGetter_(I1, g.val, Global))
           ELSE R(SetTop(g.I, "value", g.val), Undef)

stepLiteral(I, state, node) == R(PopReturn(I, node.value), Undef)

stepMemberExpression(I, state, node) ==
  IF ~Flag(state, "doneObject_")
  THEN Push(SetTop(I, "doneObject_", TRUE), State(node.object, state.scope))
  ELSE IF node.computed /\ ~Flag(state, "doneProperty_")
  THEN Push(SetTop(SetTop(I, "object_", Val(state, "value")), "doneProperty_", TRUE),
            State(node.property, state.scope))
  ELSE LET object_ == IF node.computed THEN state.object_ ELSE Val(state, "value")
           \* The name is stringified here; the source does so in getProperty.
           propName == IF node.computed THEN invoke(I, "ToStr", <<Val(state, "value")>>) ELSE node.property.name
       IN  IF Flag(state, "components")
           THEN R(PopReturn(I, Ref(object_, propName)), Undef)
           ELSE LET g == invoke(Pop(I), "getProperty", <<object_, propName>>)
                IN  IF Failed(g) THEN g
                    ELSE IF IsGetter(g.I, g.val)
                    THEN LET I1 == ClearGetter(g.I, g.val)
                         IN  Push(I1, createGetter_(I1, g.val, object_))
                    ELSE R(SetTop(g.I, "value", g.val), Undef)

\* properties_ of stepObjectExpression: the list of <<key, kinds>> in
\* insertion order, kinds mapping 'init' / 'get' / 'set' to a value.
RecordKind(props, key, kind, x) ==
  IF \E j \in 1..Len(props) : props[j][1] = key
  THEN [j \in 1..Len(props) |->
          IF props[j][1] = key THEN <<key, MapPut(props[j][2], kind, x)>> ELSE props[j]]
  ELSE Append(props, <<key, (kind :> x)>>)

SetLiteralProperties(I, object_, props) ==
  IF props = <<>> THEN R(I, Undef)
  ELSE LET key == Head(props)[1]
           kinds == Head(props)[2]
           s == IF Has(kinds, "get") \/ Has(kinds, "set")
                THEN \* Set a property with a getter or setter.
                     invoke(I, "setProperty", <<object_, key, Null,
                                 [configurable |-> TRUE, enumerable |-> TRUE,
                                  get |-> Val(kinds, "get"), set |-> Val(kinds, "set")]>>)
                ELSE invoke(I, "setProperty", <<object_, key, Val(kinds, "init"), NoDescriptor>>)
       IN  IF Failed(s) THEN s ELSE invoke(s.I, "SetLiteralProperties", <<object_, Tail(props)>>)

stepObjectExpression(I, state, node) ==
  LET n0 == Cnt(state, "n_")
      first == ~Has(state, "object_")
      c == IF first THEN invoke(I, "createObjectProto", <<Root(I, "OBJECT_PROTO")>>) ELSE R(I, state.object_)
      object_ == c.val
      done == At(node.properties, n0)
      properties_ == IF first THEN <<>>
                     ELSE RecordKind(state.properties_, done.key.name, done.kind, Val(state, "value"))
      n == IF first THEN n0 ELSE n0 + 1
      I1 == SetTop(SetTop(SetTop(c.I, "object_", object_), "properties_", properties_), "n_", n)
      property == At(node.properties, n)
  IN  IF Has(property, "value")
      THEN Push(I1, State(property.value, state.scope))
      ELSE LET s == invoke(I1, "SetLiteralProperties", <<object_, properties_>>)
           IN  IF Failed(s) THEN s ELSE R(PopReturn(s.I, object_), Undef)

stepArrayExpression(I, state, node) ==
  LET elements == node.elements
      n0 == Cnt(state, "n_")
      first == ~Has(state, "array_")
      c == IF first THEN invoke(I, "createObjectProto", <<Root(I, "ARRAY_PROTO")>>) ELSE R(I, state.array_)
      array_ == c.val
      s == IF first
           THEN R([SetTop(c.I, "array_", array_) EXCEPT
                     !.heap[array_.v] = AssignOwn(@, "length", Num(Len(elements)))], Undef)
           ELSE invoke(I, "setProperty", <<array_, NumToStr(n0), Val(state, "value"), NoDescriptor>>)
      n1 == IF first THEN n0 ELSE n0 + 1
      \* Skip missing elements - they're not defined, not undefined.
      present == {j \in n1..(Len(elements) - 1) : IsNode(At(elements, j))}
      n == CHOOSE j \in present : \A k \in present : j <= k
  IN  IF Failed(s) THEN s
      ELSE IF present # {}
      THEN Push(SetTop(s.I, "n_", n), State(At(elements, n), state.scope))
      ELSE R(PopReturn(s.I, array_), Undef)

stepThisExpression(I, state, node) ==
  LET g == invoke(Pop(I), "getValueFromScope", <<"this">>)
  IN  IF Failed(g) THEN g ELSE R(SetTop(g.I, "value", g.val), Undef)

\* The operators of stepUnaryExpression the modelled programs use.
stepUnaryExpression(I, state, node) ==
  LET x == Val(state, "value")
      I1 == Pop(I)
      strict == I.heap[state.scope.v].strict
      obj == IF x.v[1] = SCOPE_REFERENCE THEN state.scope ELSE x.v[1]
      name == x.v[2]
  IN  IF ~Flag(state, "done_")
      THEN Push(SetTop(I, "done_", TRUE),
                IF node.operator = "delete" THEN Components(State(node.argument, state.scope))
                ELSE State(node.argument, state.scope))
      ELSE CASE node.operator = "!" -> R(SetTop(I1, "value", Bool(~Truthy(x))), Undef)
             [] node.operator = "-" -> R(SetTop(I1, "value", Arith("-", Num(0), x)), Undef)
             [] node.operator = "typeof" ->
                  R(SetTop(I1, "value",
                           Str(IF IsObj(x) THEN (IF I.heap[x.v].class = "Function" THEN "function"
                                                 ELSE "object")
                               ELSE IF x.t = "null" THEN "object"
                               ELSE IF x.t = "nan" THEN "number" ELSE x.t)), Undef)
             [] node.operator = "delete" ->
                  \* If value is not an array, skip the delete and return true.
                  IF ~IsRef(x) THEN R(SetTop(I1, "value", Bool(TRUE)), Undef)
                  ELSE IF ~IsObj(obj)
                  THEN \* obj.properties is undefined: the host TypeError is caught.
                       IF strict
                       THEN invoke(I1, "throwException",
                                   <<Root(I, "TYPE_ERROR"),
                                     Str("Cannot delete property '" \o name \o "' of '"
                                         \o invoke(I, "ToStr", <<obj>>) \o "'")>>)
                       ELSE R(SetTop(I1, "value", Bool(FALSE)), Undef)
                  ELSE \* The host's delete throws nothing: result stays true.
                       R(SetTop([I1 EXCEPT !.heap[obj.v] = DeleteOwn(@, {name})],
                                "value", Bool(TRUE)), Undef)

stepWithStatement(I, state, node) ==
  IF ~Flag(state, "doneObject_")
  THEN Push(SetTop(I, "doneObject_", TRUE), State(node.object, state.scope))
  ELSE IF ~Flag(state, "doneBody_")
  THEN LET c == invoke(SetTop(I, "doneBody_", TRUE), "createSpecialScope",
                       <<state.scope, Val(state, "value")>>)
       IN  Push(c.I, State(node.body, c.val))
  ELSE R(Pop(I), Undef)

stepBreakStatement(I, state, node) == invoke(I, "unwind", <<BREAK, Undef, node.label>>)

stepContinueStatement(I, state, node) == invoke(I, "unwind", <<CONTINUE, Undef, node.label>>)

\* stepConditionalExpression, which is stepIfStatement too.
stepConditionalExpression(I, state, node) ==
  LET mode == Cnt(state, "mode_")
      test == Truthy(Val(state, "value"))
      popped == Pop(I)
  IN  IF mode = 0 THEN Push(SetTop(I, "mode_", 1), State(node.test, state.scope))
      ELSE IF mode = 1 /\ test /\ IsNode(node.consequent)
      THEN Push(SetTop(I, "mode_", 2), State(node.consequent, state.scope))   \* Execute 'if' block.
      ELSE IF mode = 1 /\ ~test /\ IsNode(node.alternate)
      THEN Push(SetTop(I, "mode_", 2), State(node.alternate, state.scope))    \* Execute 'else' block.
      ELSE IF node.type = "ConditionalExpression"
      THEN R(SetTop(IF mode = 1 THEN [popped EXCEPT !.value = Undef] ELSE popped,
                    "value", Val(state, "value")), Undef)
      ELSE R(IF mode = 1 THEN [popped EXCEPT !.value = Undef] ELSE popped, Undef)

\* stepDoWhileStatement, which is stepWhileStatement too.
\* A do-while that checks its test before the first iteration too.
stepDoWhileStatement_test_first(I, state, node) ==
  IF ~Flag(state, "test_")
  THEN Push(SetTop(I, "test_", TRUE), State(node.test, state.scope))
  ELSE IF ~Truthy(Val(state, "value")) THEN R(Pop(I), Undef)
  ELSE Push(SetTop(SetTop(I, "test_", FALSE), "isLoop", TRUE), State(node.body, state.scope))

stepDoWhileStatement(I, state, node) ==
  LET f == IF node.type = "DoWhileStatement" /\ ~Has(state, "test_")
           THEN \* First iteration of do/while executes without checking test.
                MapPut(MapPut(state, "value", Bool(TRUE)), "test_", TRUE)
           ELSE state
  IN  IF ~Flag(f, "test_")
      THEN Push(ForInTop(I, MapPut(f, "test_", TRUE)), State(node.test, state.scope))
      ELSE IF ~Truthy(Val(f, "value")) THEN R(Pop(I), Undef)   \* Done, exit loop.
      ELSE IF IsNode(node.body)
      THEN Push(ForInTop(I, MapPut(MapPut(f, "test_", FALSE), "isLoop", TRUE)),
                State(node.body, state.scope))
      ELSE R(ForInTop(I, f), Undef)

stepForStatement(I, state, node) ==
  LET mode == Cnt(state, "mode_")
      to(m, child) == IF IsNode(child) THEN Push(SetTop(I, "mode_", m), State(child, state.scope))
                      ELSE R(SetTop(I, "mode_", m), Undef)
  IN  CASE mode = 0 -> to(1, node.init)
        [] mode = 1 -> to(2, node.test)
        [] mode = 2 ->
             IF IsNode(node.test) /\ ~Truthy(Val(state, "value"))
             THEN R(Pop(I), Undef)   \* Done, exit loop.
             ELSE Push(SetTop(SetTop(I, "mode_", 3), "isLoop", TRUE),
                       State(node.body, state.scope))
        [] mode = 3 -> to(1, node.update)

stepLabeledStatement(I, state, node) ==
  \* No need to hit this node again on the way back up the stack.
  Push(Pop(I), MapPut(State(node.body, state.scope), "labels",
                      Append(IF Has(state, "labels") THEN state.labels ELSE <<>>, node.label)))

\* The loop `while (true)` of stepSwitchStatement, on the frame f (which
\* has test_ = 2 and switchValue_ by now).
RECURSIVE SwitchCases(_, _, _)
SwitchCases(I, f, node) ==
  LET index == Cnt(f, "index_")
      switchCase == At(node.cases, index)
      matched_ == Flag(f, "matched_")
      n == Cnt(f, "n_")
  IN  IF ~matched_ /\ IsNode(switchCase) /\ ~IsNode(switchCase.test)
      THEN \* Bypass (but store) the default case, and get back to it later.
           SwitchCases(I, MapPut(MapPut(f, "defaultCase_", index), "index_", index + 1), node)
      ELSE IF ~IsNode(switchCase) /\ ~matched_ /\ Cnt(f, "defaultCase_") # 0
      THEN \* Ran through all cases, no match.  Jump to the default.
           SwitchCases(I, MapPut(MapPut(f, "matched_", TRUE), "index_", f.defaultCase_), node)
      ELSE IF ~IsNode(switchCase) THEN R(Pop(I), Undef)
      ELSE IF ~matched_ /\ ~Flag(f, "tested_") /\ IsNode(switchCase.test)
      THEN Push(ForInTop(I, MapPut(f, "tested_", TRUE)), State(switchCase.test, f.scope))
      ELSE IF (matched_ \/ (Val(f, "value") = f.switchValue_ /\ f.switchValue_.t # "nan"))
              /\ IsNode(At(switchCase.consequent, n))
      THEN Push(ForInTop(I, MapPut(MapPut(MapPut(f, "matched_", TRUE), "isSwitch", TRUE),
                                   "n_", n + 1)),
                State(At(switchCase.consequent, n), f.scope))
      ELSE \* Move on to next case.
           SwitchCases(I, MapPut(MapPut(MapPut(
                            IF matched_ \/ (Val(f, "value") = f.switchValue_ /\ f.switchValue_.t # "nan")
                            THEN MapPut(f, "matched_", TRUE) ELSE f,
                            "tested_", FALSE), "n_", 0), "index_", index + 1), node)

stepSwitchStatement(I, state, node) ==
  IF Cnt(state, "test_") = 0
  THEN Push(SetTop(I, "test_", 1), State(node.discriminant, state.scope))
  ELSE SwitchCases(I, IF state.test_ = 1
                      THEN \* Preserve switch value between case tests.
                           MapPut(MapPut(state, "test_", 2), "switchValue_", Val(state, "value"))
                      ELSE state, node)

stepLogicalExpression(I, state, node) ==
  IF node.operator \notin {"&&", "||"}
  THEN Raise(I, HostError("SyntaxError", "Unknown logical operator: " \o node.operator))
  ELSE IF ~Flag(state, "doneLeft_")
  THEN Push(SetTop(I, "doneLeft_", TRUE), State(node.left, state.scope))
  ELSE IF ~Flag(state, "doneRight_")
  THEN IF (node.operator = "&&" /\ ~Truthy(Val(state, "value")))
          \/ (node.operator = "||" /\ Truthy(Val(state, "value")))
       THEN \* Shortcut evaluation.
            R(PopReturn(I, Val(state, "value")), Undef)
       ELSE Push(SetTop(I, "doneRight_", TRUE), State(node.right, state.scope))
  ELSE R(PopReturn(I, Val(state, "value")), Undef)

\* A stepProgram that pops its frame once the body has run.
stepProgram_pops(I, state, node) ==
  LET n == Cnt(state, "n_")
      expression == At(node.body, n)
  IN  IF IsNode(expression)
      THEN Push(SetTop(SetTop(I, "done", FALSE), "n_", n + 1), State(expression, state.scope))
      ELSE R(Pop(I), Undef)

stepProgram(I, state, node) ==
  LET n == Cnt(state, "n_")
      expression == At(node.body, n)
  IN  IF IsNode(expression)
      THEN Push(SetTop(SetTop(I, "done", FALSE), "n_", n + 1), State(expression, state.scope))
      ELSE \* Don't pop the stateStack.
           R(SetTop(I, "done", TRUE), Undef)

\* A return that unwinds without the value of its argument.
stepReturnStatement_without_value(I, state, node) ==
  IF IsNode(node.argument) /\ ~Flag(state, "done_")
  THEN Push(SetTop(I, "done_", TRUE), State(node.argument, state.scope))
  ELSE invoke(I, "unwind", <<RETURN, Undef, "">>)

stepReturnStatement(I, state, node) ==
  IF IsNode(node.argument) /\ ~Flag(state, "done_")
  THEN Push(SetTop(I, "done_", TRUE), State(node.argument, state.scope))
  ELSE invoke(I, "unwind", <<RETURN, Val(state, "value"), "">>)

stepThrowStatement(I, state, node) ==
  IF ~Flag(state, "done_")
  THEN Push(SetTop(I, "done_", TRUE), State(node.argument, state.scope))
  ELSE invoke(I, "throwException", <<Val(state, "value"), Undef>>)

stepTryStatement(I, state, node) ==
  LET cv == IF Has(state, "cv") THEN state.cv ELSE [type |-> NORMAL]
      thrown == Has(state, "cv") /\ cv.type # NORMAL
  IN  IF ~Flag(state, "doneBlock_")
      THEN Push(SetTop(I, "doneBlock_", TRUE), State(node.block, state.scope))
      ELSE IF thrown /\ cv.type = THROW /\ ~Flag(state, "doneHandler_") /\ IsNode(node.handler)
      THEN \* This error has been handled, don't rethrow.
           Push(SetTop(SetTop(I, "doneHandler_", TRUE), "cv", [type |-> NORMAL]),
                MapPut(State(node.handler, state.scope), "throwValue", cv.value))
      ELSE IF ~Flag(state, "doneFinalizer_") /\ IsNode(node.finalizer)
      THEN Push(SetTop(I, "doneFinalizer_", TRUE), State(node.finalizer, state.scope))
      ELSE IF thrown THEN invoke(Pop(I), "unwind", <<cv.type, cv.value, cv.label>>)
      ELSE R(Pop(I), Undef)

stepVariableDeclaration(I, state, node) ==
  LET n0 == Cnt(state, "n_")
      assign == Flag(state, "init_") /\ IsNode(At(node.declarations, n0))
      s == IF assign
           THEN invoke(I, "setValueToScope", <<At(node.declarations, n0).id.name, Val(state, "value")>>)
           ELSE R(I, Undef)
      n1 == IF assign THEN n0 + 1 ELSE n0
      inits == {j \in n1..(Len(node.declarations) - 1) : IsNode(At(node.declarations, j).init)}
      n == CHOOSE j \in inits : \A k \in inits : j <= k
  IN  IF Failed(s) THEN s
      ELSE IF inits # {}
      THEN Push(SetTop(SetTop(s.I, "n_", n), "init_", TRUE),
                State(At(node.declarations, n).init, state.scope))
      ELSE R(Pop(IF assign THEN SetTop(s.I, "init_", FALSE) ELSE s.I), Undef)

(***************************************************************************)
(* stepCallExpression (also stepNewExpression), in its four parts.         *)
(***************************************************************************)
\* doneCallee_ === 1: determine the value of the function.  next is the
\* getter frame when the callee is an accessor property.
CallDetermineFunction(I, state) ==
  LET func == Val(state, "value")
      I1 == SetTop(I, "doneCallee_", 2)
      ready(J) == SetTop(SetTop(J, "arguments_", <<>>), "n_", 0)
  IN  IF IsRef(func)
      THEN LET g == invoke(I1, "getValue", <<func>>)
           IN  IF Failed(g) THEN g
               ELSE LET I2 == SetTop(g.I, "func_", g.val)
                        I3 == IF func.v[1] = SCOPE_REFERENCE
                              THEN SetTop(I2, "directEval_", func.v[2] = "eval")
                              ELSE SetTop(I2, "funcThis_", func.v[1])
                    IN  IF IsGetter(I3, g.val)
                        THEN LET I4 == SetTop(ClearGetter(I3, g.val), "doneCallee_", 1)
                             IN  Push(I4, createGetter_(I4, g.val, func))
                        ELSE R(ready(I3), Undef)
      ELSE R(ready(SetTop(I1, "func_", func)), Undef)

\* !doneArgs_: evaluate the arguments, then determine `this`.
CallArguments(I, state, node) ==
  LET n_ == Cnt(state, "n_")
      arguments_ == IF n_ # 0 THEN Append(state.arguments_, Val(state, "value"))
                    ELSE state.arguments_
      I1 == SetTop(I, "arguments_", arguments_)
      func == state.func_
  IN  IF IsNode(At(node.arguments, n_))
      THEN Push(SetTop(I1, "n_", n_ + 1), State(At(node.arguments, n_), state.scope))
      ELSE IF node.type = "NewExpression"
      THEN IF ~IsObj(func)
           THEN Raise(I1, HostError("TypeError", "Cannot read property 'prototype' of undefined"))
           ELSE IF I1.heap[func.v].illegalConstructor
           THEN invoke(I1, "throwException", <<Root(I, "TYPE_ERROR"), Str(invoke(I1, "ToStr", <<func>>) \o " is not a constructor")>>)
           ELSE LET c == invoke(I1, "createObject", <<func>>)
                IN  R(SetTop(SetTop(SetTop(c.I, "funcThis_", c.val), "isConstructor", TRUE),
                             "doneArgs_", TRUE), Undef)
      ELSE IF Val(state, "funcThis_") = Undef
      THEN R(SetTop(SetTop(I1, "funcThis_",
                           IF I1.heap[state.scope.v].strict THEN Undef ELSE Global),
                    "doneArgs_", TRUE), Undef)
      ELSE R(SetTop(I1, "doneArgs_", TRUE), Undef)

\* setProperty(obj, names[i], values[i]) for the i-th of names, from `from`.
SetAll(I, obj, names, values, from) ==
  IF from > Len(names) THEN R(I, Undef)
  ELSE LET s == invoke(I, "setProperty", <<obj, names[from], Arg(values, from), NoDescriptor>>)
       IN  IF Failed(s) THEN s ELSE invoke(s.I, "SetAll", <<obj, names, values, from + 1>>)

\* A guest function is called: create its scope and push its body.
CallGuestFunction(I, state, func) ==
  LET funcNode == I.heap[func.v].node
      arguments_ == state.arguments_
      c == invoke(I, "createScope", <<funcNode.body, I.heap[func.v].parentScope>>)
      scope == c.val
      params == invoke(c.I, "SetAll", <<scope, [j \in 1..Len(funcNode.params) |-> funcNode.params[j].name],
                       arguments_, 1>>)
      a == invoke(params.I, "createObjectProto", <<Root(I, "ARRAY_PROTO")>>)
      elems == invoke(a.I, "SetAll", <<a.val, [j \in 1..Len(arguments_) |-> NumToStr(j - 1)], arguments_, 1>>)
      args == invoke(elems.I, "setProperty", <<scope, "arguments", a.val, NoDescriptor>>)
      named == IF IsNode(funcNode.id)
               THEN invoke(args.I, "setProperty", <<scope, funcNode.id.name, func, NoDescriptor>>)
               ELSE args
      this == invoke(named.I, "setProperty", <<scope, "this", Val(Top(named.I), "funcThis_"), READONLY_DESCRIPTOR>>)
  IN  IF Failed(c) THEN c
      ELSE IF Failed(this) THEN this
      ELSE \* Default value if no explicit return.
           Push(SetTop(this.I, "value", Undef), State(funcNode.body, scope))

\* !doneExec_: run the function.
CallExecute(I, state) ==
  LET func == state.func_
      I1 == SetTop(I, "doneExec_", TRUE)
      f == I1.heap[func.v]
  IN  IF ~IsObj(func)
      THEN invoke(I1, "throwException", <<Root(I, "TYPE_ERROR"), Str(invoke(I1, "ToStr", <<func>>) \o " is not a function")>>)
      ELSE IF IsNode(f.node) THEN invoke(I1, "CallGuestFunction", <<Top(I1), func>>)
      ELSE IF f.nativeFunc # ""
      THEN LET c == invoke(I1, "CallNative", <<f.nativeFunc, Val(state, "funcThis_"), state.arguments_>>)
           IN  IF Failed(c) THEN c ELSE R(SetTop(c.I, "value", c.val), Undef)
      ELSE IF f.asyncFunc # ""
      THEN LET k == Len(I1.cbs) + 1
               I2 == [SetTop(I1, "cb_", k) EXCEPT !.cbs = Append(@, FALSE), !.paused_ = TRUE]
           IN  R(CallAsync(I2, f.asyncFunc, Val(state, "funcThis_"), state.arguments_, k), Undef)
      ELSE invoke(I1, "throwException", <<Root(I, "TYPE_ERROR"), Str(f.class \o " is not a function")>>)

stepCallExpression(I, state, node) ==
  IF Cnt(state, "doneCallee_") = 0
  THEN \* Components needed to determine value of 'this'.
       Push(SetTop(I, "doneCallee_", 1), Components(State(node.callee, state.scope)))
  ELSE LET d == IF Cnt(state, "doneCallee_") = 1 THEN invoke(I, "CallDetermineFunction", <<state>>)
                ELSE R(I, Undef)
       IN  IF Failed(d) \/ IsState(d.next) THEN d
           ELSE LET a == IF ~Flag(Top(d.I), "doneArgs_") THEN invoke(d.I, "CallArguments", <<Top(d.I), node>>)
                         ELSE R(d.I, Undef)
                IN  IF Failed(a) \/ IsState(a.next) THEN a
                    ELSE IF ~Flag(state, "doneExec_") THEN invoke(a.I, "CallExecute", <<Top(a.I)>>)
                    ELSE \* Execution complete.  Put the return value on the stack.
                         LET x == Val(state, "value")
                         IN  IF Flag(state, "isConstructor") /\ ~(IsObj(x) \/ x = Null)
                             THEN R(PopReturn(a.I, Val(state, "funcThis_")), Undef)
                             ELSE R(PopReturn(a.I, x), Undef)

\* this.stepFunctions_[type](stack, state, node)
stepFunctions_(I, state, node) ==
  CASE node.type = "ArrayExpression" -> stepArrayExpression(I, state, node)
    [] node.type = "AssignmentExpression" -> stepAssignmentExpression(I, state, node)
    [] node.type = "BinaryExpression" -> stepBinaryExpression(I, state, node)
    [] node.type = "UpdateExpression" -> stepUpdateExpression(I, state, node)
    [] node.type = "BlockStatement" -> stepBlockStatement(I, state, node)
    [] node.type = "BreakStatement" -> stepBreakStatement(I, state, node)
    [] node.type = "CallExpression" -> stepCallExpression(I, state, node)
    [] node.type = "CatchClause" -> stepCatchClause(I, state, node)
    [] node.type = "ContinueStatement" -> stepContinueStatement(I, state, node)
    [] node.type = "DoWhileStatement" -> stepDoWhileStatement(I, state, node)
    [] node.type = "EmptyStatement" -> stepEmptyStatement(I, state, node)
    [] node.type = "ExpressionStatement" -> stepExpressionStatement(I, state, node)
    [] node.type = "ForInStatement" -> stepForInStatement(I, state, node)
    [] node.type = "ForStatement" -> stepForStatement(I, state, node)
    [] node.type = "FunctionDeclaration" -> stepFunctionDeclaration(I, state, node)
    [] node.type = "FunctionExpression" -> stepFunctionExpression(I, state, node)
    [] node.type = "Identifier" -> stepIdentifier(I, state, node)
    [] node.type = "IfStatement" -> stepConditionalExpression(I, state, node)
    [] node.type = "LabeledStatement" -> stepLabeledStatement(I, state, node)
    [] node.type = "Literal" -> stepLiteral(I, state, node)
    [] node.type = "LogicalExpression" -> stepLogicalExpression(I, state, node)
    [] node.type = "MemberExpression" -> stepMemberExpression(I, state, node)
    [] node.type = "NewExpression" -> stepCallExpression(I, state, node)
    [] node.type = "ObjectExpression" -> stepObjectExpression(I, state, node)
    [] node.type = "Program" -> stepProgram(I, state, node)
    [] node.type = "ReturnStatement" -> stepReturnStatement(I, state, node)
    [] node.type = "SwitchStatement" -> stepSwitchStatement(I, state, node)
    [] node.type = "ThrowStatement" -> stepThrowStatement(I, state, node)
    [] node.type = "ThisExpression" -> stepThisExpression(I, state, node)
    [] node.type = "TryStatement" -> stepTryStatement(I, state, node)
    [] node.type = "UnaryExpression" -> stepUnaryExpression(I, state, node)
    [] node.type = "VariableDeclaration" -> stepVariableDeclaration(I, state, node)
    [] node.type = "WhileStatement" -> stepDoWhileStatement(I, state, node)
    [] node.type = "WithStatement" -> stepWithStatement(I, state, node)

(***************************************************************************)
(* step(), run() and appendCode().  val is the value returned.             *)
(***************************************************************************)
\* step() without the `else if (this.paused_) return true` branch.
step_ignoring_pause(I) ==
  IF I.stack = <<>> THEN R(I, FALSE)
  ELSE LET state == Top(I)
           node == state.node
       IN  IF node.type = "Program" /\ Flag(state, "done") THEN R(I, FALSE)
           ELSE LET h == invoke(I, "stepFunctions_", <<state, node>>)
                    I1 == IF h.exc = NoExc /\ IsState(h.next)
                          THEN [h.I EXCEPT !.stack = Append(@, h.next)]
                          ELSE h.I
                IN  IF h.exc # NoExc /\ h.exc # STEP_ERROR THEN Raise(h.I, h.exc)
                    ELSE IF node.end = 0 THEN invoke(I1, "step", <<>>)
                    ELSE R(I1, TRUE)

\* step() returning true, not false, on a Program that is done.
step_done_returns_true(I) ==
  IF I.stack = <<>> THEN R(I, FALSE)
  ELSE LET state == Top(I)
           node == state.node
       IN  IF node.type = "Program" /\ Flag(state, "done") THEN R(I, TRUE)
           ELSE IF I.paused_ THEN R(I, TRUE)
           ELSE LET h == invoke(I, "stepFunctions_", <<state, node>>)
                    I1 == IF h.exc = NoExc /\ IsState(h.next)
                          THEN [h.I EXCEPT !.stack = Append(@, h.next)]
                          ELSE h.I
                IN  IF h.exc # NoExc /\ h.exc # STEP_ERROR THEN Raise(h.I, h.exc)
                    ELSE IF node.end = 0 THEN invoke(I1, "step", <<>>)
                    ELSE R(I1, TRUE)

\* A step that does not eat the step error: the sentinel reaches the caller
\* of step() like any other host exception.
stepNode_rethrows(I) ==
  IF I.stack = <<>> THEN R(I, FALSE)
  ELSE LET state == Top(I)
           node == state.node
       IN  IF node.type = "Program" /\ Flag(state, "done") THEN R(I, FALSE)
           ELSE IF I.paused_ THEN R(I, TRUE)
           ELSE LET h == invoke(I, "stepFunctions_", <<state, node>>)
                IN  IF h.exc # NoExc THEN Raise(h.I, h.exc)
                    ELSE IF IsState(h.next)
                    THEN R([h.I EXCEPT !.stack = Append(@, h.next)], TRUE)
                    ELSE R(h.I, TRUE)

\* The body of step() up to its last statement; `next` tells whether the
\* call `return this.step()` follows.
Again == [again |-> TRUE]
stepNode(I) ==
  IF I.stack = <<>> THEN R(I, FALSE)
  ELSE LET state == Top(I)
           node == state.node
       IN  IF node.type = "Program" /\ Flag(state, "done") THEN R(I, FALSE)
           ELSE IF I.paused_ THEN R(I, TRUE)
           ELSE LET h == invoke(I, "stepFunctions_", <<state, node>>)
                    \* Eat any step errors.  They have been thrown on the stack.
                    I1 == IF h.exc = NoExc /\ IsState(h.next)
                          THEN [h.I EXCEPT !.stack = Append(@, h.next)]
                          ELSE h.I
                IN  IF h.exc # NoExc /\ h.exc # STEP_ERROR THEN Raise(h.I, h.exc)
                    ELSE IF node.end = 0
                    THEN \* This is polyfill code.  Keep executing.
                         [I |-> I1, val |-> TRUE, exc |-> NoExc, next |-> Again]
                    ELSE R(I1, TRUE)

RECURSIVE StepLoop(_, _)
\* The tail calls `return this.step()` of polyfill code as a loop of up to
\* fuel rounds, split in halves.
StepLoop(I, fuel) ==
  IF fuel <= 1 THEN invoke(I, "stepNode", <<>>)
  ELSE LET half == StepLoop(I, fuel \div 2)
       IN  IF half.next # Again THEN half
           ELSE StepLoop(half.I, fuel - (fuel \div 2))
\* The loop is left out where it would not end.
StepAgain(r) == IF r.next = Again THEN Raise(r.I, Diverges) ELSE r

\* Interpreter.prototype.step
step(I) ==
  LET first == stepNode(I)
  IN  IF first.next # Again THEN first
      ELSE StepAgain(StepLoop(first.I, MaxPolyfillSteps))

RECURSIVE RunLoop(_, _)
\* Up to fuel rounds of the loop `while (!this.paused_ && this.step()) {}`,
\* split in halves; val tells whether the loop is still going.
RunLoop(I, fuel) ==
  IF fuel <= 1
  THEN IF I.paused_ THEN R(I, FALSE) ELSE invoke(I, "step", <<>>)
  ELSE LET half == RunLoop(I, fuel \div 2)
       IN  IF Failed(half) \/ ~half.val THEN half
           ELSE RunLoop(half.I, fuel - (fuel \div 2))

\* run() that clears this.value when it returns.
run_dropping_value(I) ==
  LET r == RunLoop(I, MaxRunSteps)
  IN  IF Failed(r) THEN r
      ELSE IF r.val /\ ~r.I.paused_ THEN Raise(r.I, Diverges)
      ELSE R([r.I EXCEPT !.value = Undef], r.I.paused_)

\* run() with `if` in place of `while`: one round of the loop.
run_one_round(I) ==
  LET r == RunLoop(I, 1)
  IN  IF Failed(r) THEN r ELSE R(r.I, r.I.paused_)

\* Interpreter.prototype.run: the loop, then `return this.paused_`.  A loop
\* that is still going after MaxRunSteps rounds does not return.
run(I) ==
  LET r == RunLoop(I, MaxRunSteps)
  IN  IF Failed(r) THEN r
      ELSE IF r.val /\ ~r.I.paused_ THEN Raise(r.I, Diverges)
      ELSE R(r.I, r.I.paused_)

\* appendCode() without `state.done = false`.
appendCode_keeping_done(I, code) ==
  IF I.stack = <<>> \/ I.stack[1].node.type # "Program"
  THEN Raise(I, HostError("Error", "Expecting original AST to start with a Program node."))
  ELSE IF code.type # "Program"
  THEN Raise(I, HostError("Error", "Expecting new AST to start with a Program node."))
  ELSE LET p == invoke(I, "populateScope_", <<code, I.stack[1].scope>>)
       IN  IF Failed(p) THEN p
           ELSE R([p.I EXCEPT !.stack[1].node.body = @ \o code.body,
                              !.ast.body = @ \o code.body],
                  Undef)

\* Interpreter.prototype.appendCode, for code given as an AST (or null).
appendCode(I, code) ==
  IF I.stack = <<>> \/ I.stack[1].node.type # "Program"
  THEN Raise(I, HostError("Error", "Expecting original AST to start with a Program node."))
  ELSE IF code.type # "Program"
  THEN Raise(I, HostError("Error", "Expecting new AST to start with a Program node."))
  ELSE LET p == invoke(I, "populateScope_", <<code, I.stack[1].scope>>)
       IN  IF Failed(p) THEN p
           ELSE R([p.I EXCEPT !.stack[1] =
                     MapPut([@ EXCEPT !.node.body = @ \o code.body], "done", FALSE),
                          !.ast.body = @ \o code.body],
                  Undef)

(***************************************************************************)
(* Construction.  initGlobalScope builds the built-ins the model uses (the *)
(* constructors and prototypes of Function, Object, Array, String,         *)
(* Boolean, Number, Error and the Error subclasses; their methods, the     *)
(* polyfills and eval are left out), then runs the host's init function,   *)
(* which binds trace, sleep and an object `o` with a native accessor       *)
(* property `b`.  Polyfilled is the constructor with the polyfill of       *)
(* Object.create.                                                          *)
(***************************************************************************)
SP(I, obj, name, x, d) == invoke(I, "setProperty", <<obj, name, x, d>>).I
WithRoot(I, n, x) == [I EXCEPT !.roots = MapPut(@, n, x.v)]

Blank ==
  [stack |-> <<>>, heap |-> <<>>, paused_ |-> FALSE, value |-> Undef, ast |-> NoNode,
   log |-> <<>>, cbs |-> <<>>, roots |-> <<>>, booting |-> TRUE,
   host |-> [sync |-> FALSE, result |-> Undef, setterReturn |-> Undef]]

\* The uneditable global properties, OBJECT_PROTO and FUNCTION_PROTO.
initGlobals ==
  LET s == invoke(Blank, "createObjectProto", <<Null>>)
      I1 == SP(s.I, Global, "undefined", Undef, READONLY_DESCRIPTOR)
      I2 == SP(I1, Global, "window", Global, READONLY_DESCRIPTOR)
      I3 == SP(I2, Global, "this", Global, READONLY_DESCRIPTOR)
      I4 == SP(I3, Global, "self", Global, NoDescriptor)
      I5 == [I4 EXCEPT !.heap = @ \o <<Object(Null), Object(Obj(Len(@) + 1))>>]
  IN  WithRoot(WithRoot(I5, "OBJECT_PROTO", Obj(Len(I4.heap) + 1)),
               "FUNCTION_PROTO", Obj(Len(I4.heap) + 2))

\* Interpreter.prototype.initFunction
initFunction(I) ==
  LET f == invoke(I, "createObjectProto", <<Root(I, "FUNCTION_PROTO")>>)
      I1 == WithRoot(f.I, "FUNCTION", f.val)
      I2 == SP(I1, Global, "Function", f.val, NoDescriptor)
      I3 == SP(I2, f.val, "prototype", Root(I, "FUNCTION_PROTO"), NoDescriptor)
      I4 == [I3 EXCEPT !.heap[f.val.v].nativeFunc = "Function",
                       !.heap[I.roots.FUNCTION_PROTO].nativeFunc = "FunctionPrototype"]
      I5 == SP(I4, Root(I, "FUNCTION_PROTO"), "constructor", f.val, NONENUMERABLE_DESCRIPTOR)
  IN  SP(I5, Root(I, "FUNCTION_PROTO"), "length", Num(0), READONLY_DESCRIPTOR)

\* Interpreter.prototype.initObject, and the end of initGlobalScope's
\* bootstrap (scope.proto, scope.constructor).
initObject(I) ==
  LET f == invoke(I, "createNativeFunction", <<"Object", 1, "true">>)
      I1 == WithRoot(f.I, "OBJECT", f.val)
      I2 == SP(I1, f.val, "prototype", Root(I, "OBJECT_PROTO"), NoDescriptor)
      I3 == SP(I2, Root(I, "OBJECT_PROTO"), "constructor", f.val, NoDescriptor)
      I4 == SP(I3, Global, "Object", f.val, NoDescriptor)
      I5 == [I4 EXCEPT !.heap[GlobalId].proto = Root(I, "OBJECT_PROTO")]
  IN  SP(I5, Global, "constructor", f.val, NoDescriptor)

\* this.setProperty(obj, name, this.createNativeFunction(wrapper, false),
\*                  Interpreter.NONENUMERABLE_DESCRIPTOR)
InstallStatic(I, obj, name, length) ==
  LET w == invoke(I, "createNativeFunction", <<name, length, "false">>)
  IN  SP(w.I, obj, name, w.val, NONENUMERABLE_DESCRIPTOR)

\* The static methods of Object in initObject that the modelled programs
\* call: Object.create, Object.defineProperty, Object.preventExtensions.
initObjectStatics(I) ==
  LET I1 == invoke(I, "InstallStatic", <<Root(I, "OBJECT"), "create", 1>>)
      I2 == invoke(I1, "InstallStatic", <<Root(I, "OBJECT"), "defineProperty", 3>>)
  IN  invoke(I2, "InstallStatic", <<Root(I, "OBJECT"), "preventExtensions", 1>>)

\* Interpreter.prototype.setNativeFunctionPrototype
setNativeFunctionPrototype(I, obj, name, length) ==
  invoke(I, "InstallStatic", <<Prop(I, obj.v, "prototype"), name, length>>)

\* this.X = this.createNativeFunction(wrapper, true);
\* this.setProperty(scope, name, this.X) of initArray .. initNumber.
initClass(I, root, name) ==
  LET f == invoke(I, "createNativeFunction", <<name, 1, "true">>)
  IN  SP(WithRoot(f.I, root, f.val), Global, name, f.val, NoDescriptor)

initArray(I) ==
  LET I1 == invoke(I, "initClass", <<"ARRAY", "Array">>)
  IN  WithRoot(I1, "ARRAY_PROTO", Prop(I1, I1.roots.ARRAY, "prototype"))

\* createErrorSubclass in Interpreter.prototype.initError
createErrorSubclass(I, name) ==
  LET f == invoke(I, "createNativeFunction", <<name, 1, "true">>)
      p == invoke(f.I, "createObject", <<Root(I, "ERROR")>>)
      I1 == SP(p.I, f.val, "prototype", p.val, NoDescriptor)
      I2 == SP(I1, p.val, "name", Str(name), NONENUMERABLE_DESCRIPTOR)
  IN  WithRoot(SP(I2, Global, name, f.val, NoDescriptor), ErrorRoot(name), f.val)

\* Interpreter.prototype.initError, up to the subclasses.
initError(I) ==
  LET I1 == invoke(I, "initClass", <<"ERROR", "Error">>)
      proto == Prop(I1, I1.roots.ERROR, "prototype")
      I2 == SP(I1, proto, "message", Str(""), NONENUMERABLE_DESCRIPTOR)
  IN  SP(I2, proto, "name", Str("Error"), NONENUMERABLE_DESCRIPTOR)

\* The host's opt_initFunc(interpreter, scope).
initFunc_(I) ==
  LET t == invoke(I, "createNativeFunction", <<"trace", 1, "undefined">>)
      I1 == SP(t.I, Global, "trace", t.val, NoDescriptor)
      a == invoke(I1, "createAsyncFunction", <<"sleep", 2>>)
      I2 == SP(a.I, Global, "sleep", a.val, NoDescriptor)
      o == invoke(I2, "createObjectProto", <<Root(I, "OBJECT_PROTO")>>)
      I3 == SP(o.I, Global, "o", o.val, NoDescriptor)
      g == invoke(I3, "createNativeFunction", <<"getB", 0, "undefined">>)
      st == invoke(g.I, "createNativeFunction", <<"setB", 1, "undefined">>)
  IN  SP(st.I, o.val, "b", VALUE_IN_DESCRIPTOR,
         [configurable |-> TRUE, enumerable |-> TRUE, get |-> g.val, set |-> st.val])

\* Interpreter.prototype.initGlobalScope, statement by statement.
WithFunction == invoke(initGlobals, "initFunction", <<>>)
\* this.setNativeFunctionPrototype(this.FUNCTION, 'apply', wrapper), the
\* method of initFunction that the modelled programs call.
WithApply ==
  invoke(WithFunction, "setNativeFunctionPrototype", <<Root(WithFunction, "FUNCTION"), "apply", 2>>)
WithObject == invoke(WithApply, "initObject", <<>>)
WithObjectStatics == invoke(WithObject, "initObjectStatics", <<>>)
WithIsPrototypeOf ==
  invoke(WithObjectStatics, "setNativeFunctionPrototype", <<Root(WithObjectStatics, "OBJECT"), "isPrototypeOf", 1>>)
WithArray == invoke(WithIsPrototypeOf, "initArray", <<>>)
WithString == invoke(WithArray, "initClass", <<"STRING", "String">>)
WithBoolean == invoke(WithString, "initClass", <<"BOOLEAN", "Boolean">>)
WithNumber == invoke(WithBoolean, "initClass", <<"NUMBER", "Number">>)
WithError == invoke(WithNumber, "initError", <<>>)
WithEvalError == invoke(WithError, "createErrorSubclass", <<"EvalError">>)
WithRangeError == invoke(WithEvalError, "createErrorSubclass", <<"RangeError">>)
WithReferenceError == invoke(WithRangeError, "createErrorSubclass", <<"ReferenceError">>)
WithSyntaxError == invoke(WithReferenceError, "createErrorSubclass", <<"SyntaxError">>)
WithTypeError == invoke(WithSyntaxError, "createErrorSubclass", <<"TypeError">>)
WithURIError == invoke(WithTypeError, "createErrorSubclass", <<"URIError">>)
initGlobalScope == invoke(WithURIError, "initFunc_", <<>>)

\* The Interpreter constructor: createScope(this.ast, null), then the root
\* frame of the main program.
Interpreter(code, h) ==
  LET p == invoke(initGlobalScope, "populateScope_", <<code, Global>>)
      I1 == [p.I EXCEPT !.heap[GlobalId].strict = StartsStrict(code)]
  IN  [I1 EXCEPT !.stack = <<MapPut(State(code, Global), "done", FALSE)>>,
                 !.value = Undef, !.ast = code, !.host = h, !.booting = FALSE]

\* The polyfill that initObject pushes to handle create's second argument:
\* (function() {
\*   var create_ = Object.create;
\*   Object.create = function(proto, props) {
\*     var obj = create_(proto);
\*     props && Object.defineProperties(obj, props);
\*     return obj;
\*   };
\* })();
CreatePolyfill ==
  LET member(o, p) == MemberExpression(Identifier(o), p)
      call(f, a) == CallExpression(f, a)
      var(n, i) == VariableDeclaration(<<VariableDeclarator(n, i)>>)
      create ==
        FunctionExpression(<<Identifier("proto"), Identifier("props")>>,
          <<var("obj", call(Identifier("create_"), <<Identifier("proto")>>)),
            ExpressionStatement(
              LogicalExpression("&&", Identifier("props"),
                call(member("Object", "defineProperties"),
                     <<Identifier("obj"), Identifier("props")>>))),
            ReturnStatement(Identifier("obj"))>>)
  IN  Program(<<ExpressionStatement(call(
        FunctionExpression(<<>>,
          <<var("create_", member("Object", "create")),
            ExpressionStatement(
              AssignmentExpression("=", member("Object", "create"), create))>>),
        <<>>))>>)

\* The constructor with polyfills_ holding the polyfill of Object.create:
\* the stripped polyfill runs on the global scope, then the stack is
\* pointed at the main program.
Polyfilled(code, h) ==
  LET I == invoke(Blank, "Interpreter", <<code, h>>)
      polyfills == stripLocations_(CreatePolyfill)
      ran == invoke([I EXCEPT !.ast = polyfills,
                              !.stack = <<MapPut(State(polyfills, Global), "done", FALSE)>>],
                    "run", <<>>)
  IN  IF Failed(ran) THEN ran
      ELSE R([ran.I EXCEPT !.value = Undef, !.ast = code, !.stack = I.stack], Undef)

(***************************************************************************)
(* Native objects of the host, as pseudoToNative makes them and            *)
(* nativeToPseudo reads them: a table N of records with the own properties *)
(* (own, and keys for the order of creation), the prototype and, for an    *)
(* array, the length.  ObjectPrototype stands for the host's               *)
(* Object.prototype and Array.prototype, which have no enumerable property *)
(* but carry the accessor `__proto__`.                                     *)
(***************************************************************************)
Native(i) == [t |-> "native", v |-> i]
ObjectPrototype == Native(0)
IsNative(v) == v.t = "native" /\ v.v # 0
NativeObject(array) ==
  [array |-> array, own |-> <<>>, keys |-> <<>>, proto |-> ObjectPrototype, length |-> 0]

\* Whether p is v or lies on the prototype chain of v.
RECURSIVE Inherits(_, _, _)
Inherits(N, v, p) ==
  IF v = p THEN TRUE
  ELSE IF ~IsNative(v) THEN FALSE
  ELSE Inherits(N, N[v.v].proto, p)

\* The own data property key of obj is created or set to x (as JSON.parse
\* and an assignment that meets no accessor do); an index raises the
\* length of an array.
NativeDefine(N, obj, key, x) ==
  LET i == legalArrayIndex(key)
  IN  [N EXCEPT ![obj.v] =
         [@ EXCEPT !.own = MapPut(@, key, x),
                   !.keys = IF Has(N[obj.v].own, key) THEN @ ELSE Append(@, key),
                   !.length = IF N[obj.v].array /\ i # NaN /\ i + 1 > @ THEN i + 1 ELSE @]]

\* The host assignment nativeObj[key] = x.  An object that inherits from
\* Object.prototype has no own `__proto__`: the assignment runs the
\* accessor, which sets the prototype when x is an object or null (and
\* throws a TypeError when that would close a cycle) and does nothing for
\* another x.  ok = FALSE stands for the TypeError.
NativeSet(N, obj, key, x) ==
  LET o == N[obj.v]
  IN  IF key = "__proto__" /\ ~Has(o.own, key) /\ Inherits(N, o.proto, ObjectPrototype)
      THEN IF ~(IsNative(x) \/ x = Null) THEN [ok |-> TRUE, N |-> N]
           ELSE IF Inherits(N, x, obj) THEN [ok |-> FALSE, N |-> N]
           ELSE [ok |-> TRUE, N |-> [N EXCEPT ![obj.v].proto = x]]
      ELSE [ok |-> TRUE, N |-> NativeDefine(N, obj, key, x)]

\* for (var key in nativeObj): the own names, then those of the prototype
\* chain that no nearer object has.
RECURSIVE NativeForIn(_, _, _)
NativeForIn(N, v, seen) ==
  IF ~IsNative(v) THEN <<>>
  ELSE LET o == N[v.v]
           names == OwnPropertyNames([properties |-> o.own, keys |-> o.keys])
       IN  SelectSeq(names, LAMBDA k : k \notin seen)
           \o NativeForIn(N, o.proto, seen \cup DOMAIN o.own)

\* key in nativeObj, and nativeObj[key]
RECURSIVE NativeIn(_, _, _)
NativeIn(N, v, key) ==
  IF ~IsNative(v) THEN FALSE
  ELSE Has(N[v.v].own, key) \/ NativeIn(N, N[v.v].proto, key)
RECURSIVE NativeGet(_, _, _)
NativeGet(N, v, key) ==
  IF ~IsNative(v) THEN Undef
  ELSE IF Has(N[v.v].own, key) THEN N[v.v].own[key]
  ELSE NativeGet(N, N[v.v].proto, key)

(***************************************************************************)
(* Interpreter.prototype.pseudoToNative.  It returns the native table, the *)
(* native value and the host exception.  cycles is the pair of arrays      *)
(* cycles.pseudo / cycles.native as one sequence of pairs; a call pushes   *)
(* its object before it descends and pops it before it returns, so the     *)
(* caller goes on with the sequence it had.  (No modelled guest object is  *)
(* a regular expression.)                                                  *)
(***************************************************************************)
RECURSIVE pseudoToNative(_, _, _, _)
RECURSIVE LowerAll(_, _, _, _, _, _)
\* The loop: nativeObj[key] = this.pseudoToNative(<value of key>, cycles)
\* for the keys in order.
LowerAll(I, N, pseudoObj, nativeObj, names, cycles) ==
  IF names = <<>> THEN [N |-> N, val |-> nativeObj, exc |-> NoExc]
  ELSE LET key == Head(names)
           x == IF N[nativeObj.v].array THEN invoke(I, "getProperty", <<pseudoObj, key>>).val
                ELSE I.heap[pseudoObj.v].properties[key]
           stored(s) ==
             IF ~s.ok
             THEN [N |-> s.N, val |-> Undef, exc |-> HostError("TypeError", "Cyclic __proto__ value")]
             ELSE LowerAll(I, s.N, pseudoObj, nativeObj, Tail(names), cycles)
           lowered(r) == IF r.exc # NoExc THEN r ELSE stored(NativeSet(r.N, nativeObj, key, r.val))
       IN  lowered(invoke(I, "pseudoToNative", <<N, x, cycles>>))

pseudoToNative(I, N, pseudoObj, cycles) ==
  IF ~IsObj(pseudoObj) THEN [N |-> N, val |-> pseudoObj, exc |-> NoExc]
  ELSE LET o == I.heap[pseudoObj.v]
           found == {i \in 1..Len(cycles) : cycles[i].pseudo = pseudoObj}
           nativeObj == Native(Len(N) + 1)
           array == isa(I, pseudoObj, Root(I, "ARRAY"))
           length == invoke(I, "getProperty", <<pseudoObj, "length">>).val
           names == IF array
                    THEN SelectSeq([j \in 1..length.v |-> NumToStr(j - 1)],
                                   LAMBDA k : hasProperty(I, pseudoObj, k))
                    ELSE SelectSeq(OwnPropertyNames(o), LAMBDA k : k \notin o.notEnumerable)
       IN  IF found # {}
           THEN [N |-> N, exc |-> NoExc,
                 val |-> cycles[CHOOSE i \in found : \A j \in found : i <= j].native]
           ELSE LowerAll(I, Append(N, NativeObject(array)), pseudoObj, nativeObj, names,
                         Append(cycles, [pseudo |-> pseudoObj, native |-> nativeObj]))

(***************************************************************************)
(* Interpreter.prototype.nativeToPseudo.  It keeps no record of the        *)
(* objects it has seen: on a cyclic native value the recursion does not    *)
(* end, and the host's stack overflows (depth counts the calls on the      *)
(* stack; more than there are native objects means a cycle).  (No modelled *)
(* native value is a RegExp or a function.)                                *)
(***************************************************************************)
RECURSIVE nativeToPseudo(_, _, _, _)
RECURSIVE LiftAll(_, _, _, _, _, _)
\* The loop: this.setProperty(pseudoObj, key, this.nativeToPseudo(nativeObj[key]))
LiftAll(I, N, nativeObj, pseudoObj, names, depth) ==
  IF names = <<>> THEN R(I, pseudoObj)
  ELSE LET next(s) == IF Failed(s) THEN s
                      ELSE LiftAll(s.I, N, nativeObj, pseudoObj, Tail(names), depth)
           lifted(r) == IF Failed(r) THEN r
                        ELSE next(invoke(r.I, "setProperty", <<pseudoObj, Head(names), r.val, NoDescriptor>>))
       IN  lifted(invoke(I, "nativeToPseudo", <<N, NativeGet(N, nativeObj, Head(names)), depth>>))

nativeToPseudo(I, N, nativeObj, depth) ==
  IF ~IsNative(nativeObj) THEN R(I, nativeObj)
  ELSE IF depth > Len(N)
  THEN Raise(I, HostError("RangeError", "Maximum call stack size exceeded"))
  ELSE LET o == N[nativeObj.v]
           names == IF o.array
                    THEN SelectSeq([j \in 1..o.length |-> NumToStr(j - 1)],
                                   LAMBDA k : NativeIn(N, nativeObj, k))
                    ELSE NativeForIn(N, nativeObj, {})
           made(m) == LiftAll(m.I, N, nativeObj, m.val, names, depth + 1)
       IN  made(invoke(I, "createObjectProto",
                       <<Root(I, IF o.array THEN "ARRAY_PROTO" ELSE "OBJECT_PROTO")>>))

(***************************************************************************)
(* The values the host converts: graphs of up to two objects or arrays.    *)
(***************************************************************************)
\* What a property holds: nothing (the property is absent), the number 1,
\* or a reference to the first or second object.
Slots == {"absent", "leaf", "first", "second"}
Index(slot) == IF slot = "first" THEN 1 ELSE 2
\* An object or array with the properties a and b (0 and 1 of an array);
\* the first object, when it is no array, may have the key `__proto__`.
Shapes == [class : {"Object", "Array"}, a : Slots, b : Slots]
Graphs ==
  {g \in [first : Shapes, second : Shapes, proto : {"absent", "leaf", "second"}] :
     g.first.class = "Array" => g.proto = "absent"}
KeyOf(class, slot) == IF class = "Array" THEN (IF slot = "a" THEN "0" ELSE "1") ELSE slot
\* The property writes that build g, as <<object, key, slot>> in order.
Writes(g) ==
  SelectSeq(<<<<1, KeyOf(g.first.class, "a"), g.first.a>>, <<1, KeyOf(g.first.class, "b"), g.first.b>>,
              <<1, "__proto__", g.proto>>,
              <<2, KeyOf(g.second.class, "a"), g.second.a>>, <<2, KeyOf(g.second.class, "b"), g.second.b>>>>,
            LAMBDA w : w[3] # "absent")
\* g is a tree: JSON text can denote it.
TreeGraph(g) ==
  /\ g.second.a \in {"absent", "leaf"} /\ g.second.b \in {"absent", "leaf"}
  /\ "first" \notin {g.first.a, g.first.b}
  /\ Cardinality({k \in {"a", "b", "proto"} :
                    (IF k = "proto" THEN g.proto ELSE g.first[k]) = "second"}) <= 1

\* Guest code builds g: `var n1 = {}` or `[]`, the same for n2, and an
\* assignment n[key] = value for each write.
RECURSIVE GuestWrites(_, _, _)
GuestWrites(I, base, writes) ==
  IF writes = <<>> THEN I
  ELSE LET w == Head(writes)
           x == IF w[3] = "leaf" THEN Num(1) ELSE Obj(base + Index(w[3]))
       IN  GuestWrites(invoke(I, "setProperty", <<Obj(base + w[1]), w[2], x, NoDescriptor>>).I,
                       base, Tail(writes))
GuestGraph(I, g) ==
  LET proto(class) == Root(I, IF class = "Array" THEN "ARRAY_PROTO" ELSE "OBJECT_PROTO")
      first == invoke(I, "createObjectProto", <<proto(g.first.class)>>)
      second == invoke(first.I, "createObjectProto", <<proto(g.second.class)>>)
  IN  GuestWrites(second.I, Len(I.heap), Writes(g))

\* The values the host converts to strings: two objects, each an Array
\* (with the elements 0 and 1) or an Error (with name and message).
StringShapes == [class : {"Array", "Error"}, a : Slots, b : Slots]
StringGraphs == [first : StringShapes, second : StringShapes]
StringKey(class, slot) ==
  IF class = "Array" THEN (IF slot = "a" THEN "0" ELSE "1")
  ELSE (IF slot = "a" THEN "name" ELSE "message")
StringWrites(g) ==
  SelectSeq(<<<<1, StringKey(g.first.class, "a"), g.first.a>>,
              <<1, StringKey(g.first.class, "b"), g.first.b>>,
              <<2, StringKey(g.second.class, "a"), g.second.a>>,
              <<2, StringKey(g.second.class, "b"), g.second.b>>>>,
            LAMBDA w : w[3] # "absent")
\* Guest code builds g: `var n1 = []` or `Error()`, the same for n2, and an
\* assignment n[key] = value for each write.
StringGraph(I, g) ==
  LET proto(class) == IF class = "Array" THEN Root(I, "ARRAY_PROTO")
                      ELSE Prop(I, Root(I, "ERROR").v, "prototype")
      first == invoke(I, "createObjectProto", <<proto(g.first.class)>>)
      second == invoke(first.I, "createObjectProto", <<proto(g.second.class)>>)
  IN  GuestWrites(second.I, Len(I.heap), StringWrites(g))

\* JSON.parse builds g in the host.
RECURSIVE NativeWrites(_, _)
NativeWrites(N, writes) ==
  IF writes = <<>> THEN N
  ELSE LET w == Head(writes)
           x == IF w[3] = "leaf" THEN Num(1) ELSE Native(Index(w[3]))
       IN  NativeWrites(NativeDefine(N, Native(w[1]), w[2], x), Tail(writes))
NativeGraph(g) ==
  NativeWrites(<<NativeObject(g.first.class = "Array"), NativeObject(g.second.class = "Array")>>,
               Writes(g))

(***************************************************************************)
(* this[method](...a): a call of a method of the interpreter object.  Every *)
(* method call in the code goes through the object; so does every one here. *)
(***************************************************************************)
invoke(I, method, a) ==
  CASE method = "Interpreter" -> Interpreter(a[1], a[2])
    [] method = "stepFunctions_" -> stepFunctions_(I, a[1], a[2])
    [] method = "appendCode" -> appendCode(I, a[1])
    [] method = "step" -> step(I)
    [] method = "stepNode" -> stepNode(I)
    [] method = "run" -> run(I)
    [] method = "pseudoToNative" -> pseudoToNative(I, a[1], a[2], a[3])
    [] method = "nativeToPseudo" -> nativeToPseudo(I, a[1], a[2], a[3])
    [] method = "GuestGraph" -> GuestGraph(invoke(I, "Interpreter", <<a[1], a[2]>>), a[3])
    [] method = "StringGraph" -> StringGraph(invoke(I, "Interpreter", <<a[1], a[2]>>), a[3])
    [] method = "toString" -> toString(I, a[1], a[2], a[3])
    [] method = "Polyfilled" -> Polyfilled(a[1], a[2])
    [] method = "initFunction" -> initFunction(I)
    [] method = "initObject" -> initObject(I)
    [] method = "InstallStatic" -> InstallStatic(I, a[1], a[2], a[3])
    [] method = "initObjectStatics" -> initObjectStatics(I)
    [] method = "setNativeFunctionPrototype" -> setNativeFunctionPrototype(I, a[1], a[2], a[3])
    [] method = "initArray" -> initArray(I)
    [] method = "initClass" -> initClass(I, a[1], a[2])
    [] method = "initError" -> initError(I)
    [] method = "createErrorSubclass" -> createErrorSubclass(I, a[1])
    [] method = "initFunc_" -> initFunc_(I)
    [] method = "createObject" -> createObject(I, a[1])
    [] method = "createObjectProto" -> createObjectProto(I, a[1])
    [] method = "createFunction" -> createFunction(I, a[1], a[2])
    [] method = "createNativeFunction" -> createNativeFunction(I, a[1], a[2], a[3])
    [] method = "createAsyncFunction" -> createAsyncFunction(I, a[1], a[2])
    [] method = "getProperty" -> getProperty(I, a[1], a[2])
    [] method = "setProperty" -> setProperty(I, a[1], a[2], a[3], a[4])
    [] method = "createScope" -> createScope(I, a[1], a[2])
    [] method = "createSpecialScope" -> createSpecialScope(I, a[1], a[2])
    [] method = "getValueFromScope" -> getValueFromScope(I, a[1])
    [] method = "setValueToScope" -> setValueToScope(I, a[1], a[2])
    [] method = "populateScope_" -> populateScope_(I, a[1], a[2])
    [] method = "getValue" -> getValue(I, a[1])
    [] method = "setValue" -> setValue(I, a[1], a[2])
    [] method = "throwException" -> throwException(I, a[1], a[2])
    [] method = "unwind" -> unwind(I, a[1], a[2], a[3])
    [] method = "Unhandled" -> Unhandled(I, a[1])
    [] method = "PopulateAll" -> PopulateAll(I, a[1], a[2])
    [] method = "DeclareAll" -> DeclareAll(I, a[1], a[2])
    [] method = "CallDetermineFunction" -> CallDetermineFunction(I, a[1])
    [] method = "CallArguments" -> CallArguments(I, a[1], a[2])
    [] method = "CallExecute" -> CallExecute(I, a[1])
    [] method = "CallGuestFunction" -> CallGuestFunction(I, a[1], a[2])
    [] method = "CallNative" -> CallNative(I, a[1], a[2], a[3])
    [] method = "ErrorConstructor" -> ErrorConstructor(I, a[1], a[2], a[3])
    [] method = "SetAll" -> SetAll(I, a[1], a[2], a[3], a[4])
    [] method = "SetLiteralProperties" -> SetLiteralProperties(I, a[1], a[2])
    [] method = "BinaryOperator" -> BinaryOperator(I, a[1], a[2], a[3])
    [] method = "AssignmentOperator" -> AssignmentOperator(I, a[1], a[2], a[3])
    [] method = "ToStr" -> ToStr(I, a[1])
    [] method = "ArrayConstructor" -> ArrayConstructor(I, a[1], a[2])
    [] method = "ObjectCreate" -> ObjectCreate(I, a[1])
    [] method = "arrayPseudoToNative" -> arrayPseudoToNative(I, a[1])
    [] method = "ObjectDefineProperty" -> ObjectDefineProperty(I, a[1], a[2], a[3])

(***************************************************************************)
(* The programs the interpreter is constructed with, as acorn parses them. *)
(***************************************************************************)
Call(f, a) == CallExpression(Identifier(f), a)
Stmt(e) == ExpressionStatement(e)
Var(n, i) == VariableDeclaration(<<VariableDeclarator(n, i)>>)

\* ""
EmptyProgram == Program(<<>>)
\* var a = 1; a + 2;
E1 == Program(<<Var("a", Literal(Num(1))),
                Stmt(BinaryExpression("+", Identifier("a"), Literal(Num(2))))>>)
\* function f(x) { return x * x; } f(7);
E2 == Program(<<FunctionDeclaration("f", <<Identifier("x")>>,
                  <<ReturnStatement(BinaryExpression("*", Identifier("x"), Identifier("x")))>>),
                Stmt(Call("f", <<Literal(Num(7))>>))>>)
\* var p = {get x() { return trace(42); }}; p.x;
E3 == Program(<<Var("p", ObjectExpression(<<Property("x", "get",
                  FunctionExpression(<<>>, <<ReturnStatement(Call("trace", <<Literal(Num(42))>>))>>))>>)),
                Stmt(MemberExpression(Identifier("p"), "x"))>>)
\* var t = sleep(10); t + 1;
E7 == Program(<<Var("t", Call("sleep", <<Literal(Num(10))>>)),
                Stmt(BinaryExpression("+", Identifier("t"), Literal(Num(1))))>>)
\* var x = 1;
VarX == Program(<<Var("x", Literal(Num(1)))>>)
\* o.b;
ReadB == Program(<<Stmt(MemberExpression(Identifier("o"), "b"))>>)
\* trace(o).b = trace(c);   for a literal c (undefined is the global of that name)
AssignB(c) ==
  Program(<<Stmt(AssignmentExpression("=",
                   MemberExpression(Call("trace", <<Identifier("o")>>), "b"),
                   Call("trace", <<c>>)))>>)
AssignedValues ==
  <<Literal(Num(5)), Literal(Num(0)), Literal(Str("")), Literal(Bool(FALSE)),
    Literal(Null), Identifier("undefined")>>
\* throw new RangeError("x");
ThrowRange == Program(<<ThrowStatement(NewExpression(Identifier("RangeError"), <<Literal(Str("x"))>>))>>)
\* throw 5;
ThrowFive == Program(<<ThrowStatement(Literal(Num(5)))>>)
\* trace(1); missing;
ReadMissing == Program(<<Stmt(Call("trace", <<Literal(Num(1))>>)), Stmt(Identifier("missing"))>>)
\* var e = new Error("m"); e.name = <name>; throw e;
ThrowNamed(name) ==
  Program(<<Var("e", NewExpression(Identifier("Error"), <<Literal(Str("m"))>>)),
            Stmt(AssignmentExpression("=", MemberExpression(Identifier("e"), "name"), Literal(Str(name)))),
            ThrowStatement(Identifier("e"))>>)
\* try { throw new TypeError("x"); } catch (e) { e.message; }
TryCatch ==
  Program(<<TryStatement(<<ThrowStatement(NewExpression(Identifier("TypeError"), <<Literal(Str("x"))>>))>>,
                         CatchClause("e", <<Stmt(MemberExpression(Identifier("e"), "message"))>>))>>)
\* An AST whose root is not a Program (the constructor accepts any node).
BareStatement == Stmt(Literal(Num(1)))

Programs ==
  {EmptyProgram, E1, E2, E3, E7, VarX, ReadB, ThrowRange, ThrowFive, ReadMissing,
   ThrowNamed("MyError"), ThrowNamed("constructor"), TryCatch, BareStatement}
  \cup {AssignB(AssignedValues[j]) : j \in 1..Len(AssignedValues)}

\* What the host hands to appendCode: `var x; x;`, `trace(2);`, null and a
\* bare statement.
VarXAgain == Program(<<VariableDeclaration(<<VariableDeclarator("x", NoNode)>>), Stmt(Identifier("x"))>>)
TraceTwo == Program(<<Stmt(Call("trace", <<Literal(Num(2))>>))>>)
Appended == {VarXAgain, TraceTwo, NoNode, BareStatement}

\* How the host functions answer: sleep completes synchronously or later,
\* with host.result; the native setter of o.b returns host.setterReturn.
Hosts ==
  {[sync |-> sy, result |-> Num(0), setterReturn |-> sr] : sy \in BOOLEAN, sr \in {Undef, Num(9)}}

(***************************************************************************)
(* The state machine: the host constructs an interpreter and then calls    *)
(* step(), run(), appendCode() and the completion callbacks in any order.  *)
(***************************************************************************)
\* The interpreter object in the current state.
Self ==
  [stack |-> stack, heap |-> heap, paused_ |-> paused_, value |-> value, ast |-> ast,
   log |-> log, cbs |-> cbs, host |-> host, roots |-> roots, booting |-> FALSE]

\* What a call returned: step() and run() return a boolean, appendCode()
\* and a callback return undefined.
Returned(r, name) ==
  [val |-> IF Failed(r) THEN "throws"
           ELSE IF name \notin {"step", "run"} THEN "undefined"
           ELSE IF r.val THEN "true" ELSE "false",
   exc |-> r.exc]

\* The state after a call into the interpreter that ended as r.
Install(r, name, arg) ==
  /\ stack' = r.I.stack
  /\ heap' = r.I.heap
  /\ paused_' = r.I.paused_
  /\ value' = r.I.value
  /\ ast' = r.I.ast
  /\ log' = r.I.log
  /\ cbs' = r.I.cbs
  /\ host' = host
  /\ roots' = roots
  /\ op' = [name |-> name, arg |-> arg]
  /\ ret' = Returned(r, name)

\* Nothing has driven the interpreter yet: calls are the driving methods
\* called so far, pausedCalls those called while paused_ was set, appends
\* the successful appendCode calls (appendedDone: each came when the Program
\* was done), raised the last host exception out of step() or run().
NoDrive ==
  [calls |-> {}, pausedCalls |-> {}, appends |-> 0, appendedDone |-> TRUE, raised |-> NoExc]

\* The host has constructed the interpreter I: new Interpreter(code, h).
Constructed(code, h, I) ==
  /\ stack = I.stack
  /\ heap = I.heap
  /\ paused_ = I.paused_
  /\ value = I.value
  /\ ast = I.ast
  /\ log = I.log
  /\ cbs = I.cbs
  /\ host = h
  /\ roots = I.roots
  /\ op = [name |-> "new", arg |-> code]
  /\ ret = [val |-> "undefined", exc |-> NoExc]
  /\ drive = NoDrive

Init ==
  \E code \in Programs, h \in Hosts :
    Constructed(code, h, invoke(Blank, "Interpreter", <<code, h>>))

Driven(name, r) ==
  [drive EXCEPT !.calls = @ \cup {name},
                !.pausedCalls = IF paused_ THEN @ \cup {name} ELSE @,
                !.raised = IF Failed(r) THEN r.exc ELSE @]

\* The host calls step().
Step ==
  /\ Len(heap) < MaxHeap
  /\ Len(log) < MaxLog
  /\ LET returned(r) == Install(r, "step", NoNode) /\ drive' = Driven("step", r)
     IN  returned(invoke(Self, "step", <<>>))

\* The host calls run(); the call is left out where it would not return.
Run ==
  /\ Len(heap) < MaxHeap
  /\ Len(log) < MaxLog
  /\ LET returned(r) ==
           r.exc # Diverges /\ Install(r, "run", NoNode) /\ drive' = Driven("run", r)
     IN  returned(invoke(Self, "run", <<>>))

ProgramDone == stack # <<>> /\ Top(Self).node.type = "Program" /\ Flag(Top(Self), "done")

\* The host calls appendCode(code).
AppendCode(code) ==
  /\ drive.appends < MaxAppends
  /\ LET returned(r) ==
           /\ Install(r, "appendCode", code)
           /\ drive' = IF Failed(r) THEN drive
                       ELSE [drive EXCEPT !.appends = @ + 1,
                                          !.appendedDone = @ /\ ProgramDone /\ ~paused_]
     IN  returned(invoke(Self, "appendCode", <<code>>))

\* The host function `sleep` completes: it calls the k-th completion
\* callback, once, with host.result.
Callback(k) ==
  /\ ~cbs[k]
  /\ Install(R(callback(Self, k, host.result), Undef), "callback", NoNode)
  /\ drive' = drive

Next ==
  \/ Step
  \/ Run
  \/ \E code \in Appended : AppendCode(code)
  \/ \E k \in 1..Len(cbs) : Callback(k)

Spec == Init /\ [][Next]_vars

(***************************************************************************)
(* Guest programs that exercise objects, arrays and scopes.  The host      *)
(* constructs an interpreter with one of them and calls step() and run().  *)
(***************************************************************************)
Assign(l, r) == Stmt(AssignmentExpression("=", l, r))
Dot(o, p) == MemberExpression(Identifier(o), p)
Init1(k, v) == Property(k, "init", v)
Static(o, f, a) == CallExpression(Dot(o, f), a)
Declare(n) == VariableDeclaration(<<VariableDeclarator(n, NoNode)>>)

\* q.<name> = 1;   or   Object.defineProperty(q, '<name>', {value: 1});
\* for a property <<name, enumerable>>.
DefineStmt(o, def) ==
  IF def[2] THEN Assign(Dot(o, def[1]), Literal(Num(1)))
  ELSE Stmt(Static("Object", "defineProperty",
                   <<Identifier(o), Literal(Str(def[1])),
                     ObjectExpression(<<Init1("value", Literal(Num(1)))>>)>>))

\* var q = {}; <the definitions>; for (var k in q) trace(k);
ForInProgram(defs) ==
  Program(<<Var("q", ObjectExpression(<<>>))>>
          \o [j \in 1..Len(defs) |-> DefineStmt("q", defs[j])]
          \o <<ForInStatement(Declare("k"), Identifier("q"), Stmt(Call("trace", <<Identifier("k")>>)))>>)

\* One or two properties named a and b, each enumerable or not, in either
\* order of definition.
PropertyDefs == {<<n, e>> : n \in {"a", "b"}, e \in BOOLEAN}
ForInDefs ==
  {<<x>> : x \in PropertyDefs}
  \cup {d \in {<<x, y>> : x \in PropertyDefs, y \in PropertyDefs} : d[1][1] # d[2][1]}

\* var p = {}; <the definitions on p>; var q = Object.create(p);
\* <the definitions on q>; for (var k in q) { trace(k); [delete p.b;] }
ForInChainProgram(c) ==
  Program(<<Var("p", ObjectExpression(<<>>))>>
          \o [j \in 1..Len(c.proto) |-> DefineStmt("p", c.proto[j])]
          \o <<Var("q", Static("Object", "create", <<Identifier("p")>>))>>
          \o [j \in 1..Len(c.own) |-> DefineStmt("q", c.own[j])]
          \o <<ForInStatement(Declare("k"), Identifier("q"),
                 BlockStatement(<<Stmt(Call("trace", <<Identifier("k")>>))>>
                                \o IF c.delete
                                   THEN <<Stmt(UnaryExpression("delete", Dot("p", "b")))>>
                                   ELSE <<>>))>>)

\* The prototype p has a, or a and b in either order with b enumerable or
\* not; the object q has nothing, or c, or an a of its own (enumerable or
\* not) that hides p's.  In one more program the body deletes p.b once p.a
\* has been visited.
ForInChains ==
  [proto : {<<<<"a", TRUE>>>>, <<<<"a", TRUE>>, <<"b", TRUE>>>>,
            <<<<"a", TRUE>>, <<"b", FALSE>>>>, <<<<"b", FALSE>>, <<"a", TRUE>>>>},
   own : {<<>>, <<<<"c", TRUE>>>>, <<<<"a", TRUE>>>>, <<<<"a", FALSE>>>>},
   delete : {FALSE}]
  \cup [proto : {<<<<"a", TRUE>>, <<"b", TRUE>>>>}, own : {<<<<"c", TRUE>>>>}, delete : {TRUE}]
ForInChainPrograms == {ForInChainProgram(c) : c \in ForInChains}

\* The directive prologue of strict code.
UseStrict == Stmt(Literal(Str("use strict")))
Prologue(strict) == IF strict THEN <<UseStrict>> ELSE <<>>
Trace(e) == Stmt(Call("trace", <<e>>))

\* ['use strict';] var q = {}; Object.defineProperty(q, 'p', {value: 1});
\* trace(delete q.p);
DeleteProgram(strict) ==
  Program(Prologue(strict)
          \o <<Var("q", ObjectExpression(<<>>)), DefineStmt("q", <<"p", FALSE>>),
               Trace(UnaryExpression("delete", Dot("q", "p")))>>)

\* How an array comes to be: [], [1, 2], [1, , 3], new Array(2), new Array(1, 2).
One == Literal(Num(1))
ArrayStarts ==
  {ArrayExpression(<<>>), ArrayExpression(<<One, Literal(Num(2))>>),
   ArrayExpression(<<One, NoNode, Literal(Num(3))>>),
   NewExpression(Identifier("Array"), <<Literal(Num(2))>>),
   NewExpression(Identifier("Array"), <<One, Literal(Num(2))>>)}
\* a[i] = 7;  and  a.length = n;  (n may be -1)
ArrayWrites ==
  {Assign(ComputedMember(Identifier("a"), Literal(Num(i))), Literal(Num(7))) : i \in {0, 3}}
  \cup {Assign(Dot("a", "length"), Literal(Num(n))) : n \in {0, 1, 3}}
  \cup {Assign(Dot("a", "length"), UnaryExpression("-", One))}
\* var a = <start>; <one or two writes>
ArrayProgram(start, writes) == Program(<<Var("a", start)>> \o writes)
ArrayPrograms ==
  {ArrayProgram(start, writes) :
     start \in ArrayStarts,
     writes \in {<<w>> : w \in ArrayWrites} \cup {<<v, w>> : v \in ArrayWrites, w \in ArrayWrites}}

\* try { <write>; trace('silent'); } catch (e) { trace(e.name); }
Attempt(write) ==
  TryStatement(<<write, Trace(Literal(Str("silent")))>>,
               CatchClause("e", <<Trace(Dot("e", "name"))>>))
\* Object.preventExtensions(q);
PreventExtensions(o) == Stmt(Static("Object", "preventExtensions", <<Identifier(o)>>))
\* var q = {}; Object.preventExtensions(q);                    then  q.n = 2;
\* var q = [1]; Object.preventExtensions(q);                   then  q[3] = 7;
\* var q = {}; Object.defineProperty(q, 'p', {value: 1});      then  q.p = 2;
FrozenCases ==
  {[made |-> <<Var("q", ObjectExpression(<<>>)), PreventExtensions("q")>>,
    write |-> Assign(Dot("q", "n"), Literal(Num(2)))],
   [made |-> <<Var("q", ArrayExpression(<<One>>)), PreventExtensions("q")>>,
    write |-> Assign(ComputedMember(Identifier("q"), Literal(Num(3))), Literal(Num(7)))],
   [made |-> <<Var("q", ObjectExpression(<<>>)), DefineStmt("q", <<"p", FALSE>>)>>,
    write |-> Assign(Dot("q", "p"), Literal(Num(2)))]}
\* ['use strict';] <made>; try { <write>; trace('silent'); } catch (e) { trace(e.name); }
FrozenProgram(strict, c) == Program(Prologue(strict) \o c.made \o <<Attempt(c.write)>>)
FrozenPrograms == {FrozenProgram(strict, c) : strict \in BOOLEAN, c \in FrozenCases}

\* function F() {}  var p = new F();  var c = Object.create(p);
\* trace(p.isPrototypeOf(c));  trace(c.isPrototypeOf(p));
ChainProgram ==
  Program(<<FunctionDeclaration("F", <<>>, <<>>),
            Var("p", NewExpression(Identifier("F"), <<>>)),
            Var("c", Static("Object", "create", <<Identifier("p")>>)),
            Trace(Static("p", "isPrototypeOf", <<Identifier("c")>>)),
            Trace(Static("c", "isPrototypeOf", <<Identifier("p")>>))>>)

\* function F() { this.x = 1; [return <r>;] }  var n = new F();  trace(n);
\* for no return statement or a returned null, true, 5, 's', undefined, {}.
Returns ==
  {<<>>} \cup {<<ReturnStatement(r)>> :
                 r \in {Literal(Null), Literal(Bool(TRUE)), Literal(Num(5)), Literal(Str("s")),
                        Identifier("undefined"), ObjectExpression(<<>>)}}
ConstructProgram(return) ==
  Program(<<FunctionDeclaration("F", <<>>,
              <<Assign(MemberExpression(ThisExpression, "x"), One)>> \o return),
            Var("n", NewExpression(Identifier("F"), <<>>)),
            Trace(Identifier("n"))>>)

\* var x = 'outer'; <var c = ...>;
\* with (c) { trace(x); x = 'set'; }  trace(c.x);  trace(x);
\* where c is {x: 'own'}, or Object.create(p) for var p = {x: 'proto'}, or {}.
Text(t) == Literal(Str(t))
WithObjects ==
  [own |-> <<Var("c", ObjectExpression(<<Init1("x", Text("own"))>>))>>,
   inherited |-> <<Var("p", ObjectExpression(<<Init1("x", Text("proto"))>>)),
                   Var("c", Static("Object", "create", <<Identifier("p")>>))>>,
   absent |-> <<Var("c", ObjectExpression(<<>>))>>]
WithProgram(kind) ==
  Program(<<Var("x", Text("outer"))>> \o WithObjects[kind]
          \o <<WithStatement(Identifier("c"),
                  BlockStatement(<<Trace(Identifier("x")), Assign(Identifier("x"), Text("set"))>>)),
                Trace(Dot("c", "x")), Trace(Identifier("x"))>>)

\* (function() { ['use strict';]
\*    try { undeclared = 1; return 'no'; } catch (e) { return e.name; } })();
\* With 'use strict' this is scenario E6.
UndeclaredProgram(strict) ==
  Program(<<Stmt(CallExpression(
      FunctionExpression(<<>>,
        Prologue(strict)
        \o <<TryStatement(<<Assign(Identifier("undeclared"), One), ReturnStatement(Text("no"))>>,
                          CatchClause("e", <<ReturnStatement(Dot("e", "name"))>>))>>),
      <<>>))>>)
E6 == UndeclaredProgram(TRUE)
\* var x = 'g';
\* function f() { var <x or y> = 'l'; function g() { x = 'set'; } g(); trace(x); }
\* f();  trace(x);
NestedProgram(local) ==
  Program(<<Var("x", Text("g")),
            FunctionDeclaration("f", <<>>,
              <<Var(local, Text("l")),
                FunctionDeclaration("g", <<>>, <<Assign(Identifier("x"), Text("set"))>>),
                Stmt(Call("g", <<>>)), Trace(Identifier("x"))>>),
            Stmt(Call("f", <<>>)), Trace(Identifier("x"))>>)

\* var q = {};
\* Object.defineProperty(q, 'n', {configurable: true,
\*     get: function() { return trace('get'); }, set: function(v) { trace('set'); }});
\* <then>;  q.n = 5;  trace(q.n);
\* where <then> is nothing, `delete q.n`, or a redefinition of n as the data
\* property {value: 1, writable: true}.
AccessorThen ==
  [kept |-> <<>>,
   deleted |-> <<Stmt(UnaryExpression("delete", Dot("q", "n")))>>,
   redefined |-> <<Stmt(Static("Object", "defineProperty",
                          <<Identifier("q"), Text("n"),
                            ObjectExpression(<<Init1("value", One),
                                               Init1("writable", Literal(Bool(TRUE)))>>)>>))>>]
AccessorProgram(then) ==
  Program(<<Var("q", ObjectExpression(<<>>)),
            Stmt(Static("Object", "defineProperty",
                   <<Identifier("q"), Text("n"),
                     ObjectExpression(
                       <<Init1("configurable", Literal(Bool(TRUE))),
                         Init1("get", FunctionExpression(<<>>,
                                        <<ReturnStatement(Call("trace", <<Text("get")>>))>>)),
                         Init1("set", FunctionExpression(<<Identifier("v")>>,
                                        <<Trace(Text("set"))>>))>>)>>))>>
          \o AccessorThen[then]
          \o <<Assign(Dot("q", "n"), Literal(Num(5))), Trace(Dot("q", "n"))>>)
AccessorPrograms == {AccessorProgram(then) : then \in DOMAIN AccessorThen}

\* function g() { return trace('G'); }
\* var a = {length: 1};  Object.defineProperty(a, '0', {enumerable: true, get: g});
\* [trace.apply(a, a);]  trace(typeof g);
ApplyProgram(applied) ==
  Program(<<FunctionDeclaration("g", <<>>, <<ReturnStatement(Call("trace", <<Text("G")>>))>>),
            Var("a", ObjectExpression(<<Init1("length", One)>>)),
            Stmt(Static("Object", "defineProperty",
                   <<Identifier("a"), Text("0"),
                     ObjectExpression(<<Init1("enumerable", Literal(Bool(TRUE))),
                                        Init1("get", Identifier("g"))>>)>>))>>
          \o (IF applied
              THEN <<Stmt(Static("trace", "apply", <<Identifier("a"), Identifier("a")>>))>>
              ELSE <<>>)
          \o <<Trace(UnaryExpression("typeof", Identifier("g")))>>)
ApplyPrograms == {ApplyProgram(applied) : applied \in BOOLEAN}

GuestPrograms ==
  {ForInProgram(defs) : defs \in ForInDefs}
  \cup ForInChainPrograms
  \cup AccessorPrograms
  \cup ApplyPrograms
  \cup {DeleteProgram(strict) : strict \in BOOLEAN}
  \cup ArrayPrograms
  \cup FrozenPrograms
  \cup {ChainProgram}
  \cup {ConstructProgram(return) : return \in Returns}
  \cup {WithProgram(kind) : kind \in DOMAIN WithObjects}
  \cup {UndeclaredProgram(strict) : strict \in BOOLEAN}
  \cup {NestedProgram(local) : local \in {"x", "y"}}

GuestHost == [sync |-> FALSE, result |-> Num(0), setterReturn |-> Undef]

GuestInit ==
  \E code \in GuestPrograms :
    Constructed(code, GuestHost, invoke(Blank, "Interpreter", <<code, GuestHost>>))

GuestNext ==
  \/ Step
  \/ Run

GuestSpec == GuestInit /\ [][GuestNext]_vars

(***************************************************************************)
(* Guest programs that exercise completions: try/catch/finally, loops,     *)
(* labels, switch and return.                                              *)
(***************************************************************************)
\* How a block ends: normally, or with one of the four abrupt completions.
Endings == {"normal", "break", "continue", "return", "throw"}
\* The statements that end a block that way; a returned or thrown value is
\* 'r' or 'x' followed by the tag of the block (b, h, f).
Ending(kind, tag) ==
  CASE kind = "normal" -> <<>>
    [] kind = "break" -> <<BreakStatement("")>>
    [] kind = "continue" -> <<ContinueStatement("")>>
    [] kind = "return" -> <<ReturnStatement(Text("r" \o tag))>>
    [] kind = "throw" -> <<ThrowStatement(Text("x" \o tag))>>

\* A try statement: how its block ends, how its handler and its finalizer
\* end ("absent" when it has none); it has a handler or a finalizer.
TryCases ==
  {c \in [block : Endings, handler : Endings \cup {"absent"}, finalizer : Endings \cup {"absent"}] :
     /\ ~(c.handler = "absent" /\ c.finalizer = "absent")
     /\ (c.handler \notin {"absent", "normal"} => c.block = "throw")}

\* function f() {
\*   var i = 0;
\*   while (i !== 2) {
\*     i = i + 1;
\*     try { <block> } catch (e) { trace(e); <handler> } finally { trace('f'); <finalizer> }
\*     trace('a');
\*   }
\*   return 'end';
\* }
\* try { trace(f()); } catch (o) { trace('o'); trace(o); }
TryOf(c) ==
  [type |-> "TryStatement", end |-> 1,
   block |-> BlockStatement(Ending(c.block, "b")),
   handler |-> IF c.handler = "absent" THEN NoNode
               ELSE CatchClause("e", <<Trace(Identifier("e"))>> \o Ending(c.handler, "h")),
   finalizer |-> IF c.finalizer = "absent" THEN NoNode
                 ELSE BlockStatement(<<Trace(Text("f"))>> \o Ending(c.finalizer, "f"))]
TryProgram(c) ==
  Program(<<FunctionDeclaration("f", <<>>,
              <<Var("i", Literal(Num(0))),
                WhileStatement(BinaryExpression("!==", Identifier("i"), Literal(Num(2))),
                  BlockStatement(<<Assign(Identifier("i"),
                                          BinaryExpression("+", Identifier("i"), One)),
                                   TryOf(c),
                                   Trace(Text("a"))>>)),
                ReturnStatement(Text("end"))>>),
            TryStatement(<<Trace(Call("f", <<>>))>>,
                         CatchClause("o", <<Trace(Text("o")), Trace(Identifier("o"))>>))>>)

\* function F() { this.x = 1; while (true) { switch (1) { case 1: return <v>; } } }
\* trace(F());   or   trace(new F());
\* for <v> nothing, 5, 's' or {}; "absent" makes the body `this.x = 1;` alone.
Returned26 == {"absent", "nothing", "number", "string", "object"}
ReturnArgument(v) ==
  CASE v = "nothing" -> NoNode
    [] v = "number" -> Literal(Num(5))
    [] v = "string" -> Text("s")
    [] v = "object" -> ObjectExpression(<<>>)
ReturnProgram(v, new) ==
  Program(<<FunctionDeclaration("F", <<>>,
              <<Assign(MemberExpression(ThisExpression, "x"), One)>>
              \o (IF v = "absent" THEN <<>>
                  ELSE <<WhileStatement(Literal(Bool(TRUE)),
                           BlockStatement(<<SwitchStatement(One,
                             <<SwitchCase(One, <<ReturnStatement(ReturnArgument(v))>>)>>)>>))>>)),
            Trace(IF new THEN NewExpression(Identifier("F"), <<>>) ELSE Call("F", <<>>))>>)
ReturnPrograms == {ReturnProgram(v, new) : v \in Returned26, new \in BOOLEAN}

\* var i = 0;
\* a: b: for (; i !== 2; i = i + 1) {
\*   var j = 0;
\*   c: <inner loop, twice> { switch (1) { case 1: <break or continue> <label>; } trace('in'); }
\*   trace('out');
\* }
\* trace('end');
\* where the inner loop is  while (j !== 2) { j = j + 1; ... },
\* do { j = j + 1; ... } while (j !== 2)  or  for (; j !== 2; j = j + 1) { ... }.
Increment(n) == Assign(Identifier(n), BinaryExpression("+", Identifier(n), One))
Below2(n) == BinaryExpression("!==", Identifier(n), Literal(Num(2)))
Jumps == [jump : {"break", "continue"}, label : {"", "a", "b", "c"}, inner : {"while", "dowhile", "for"}]
JumpStatement(c) ==
  IF c.jump = "break" THEN BreakStatement(c.label) ELSE ContinueStatement(c.label)
InnerLoop(c) ==
  LET body == <<SwitchStatement(One, <<SwitchCase(One, <<JumpStatement(c)>>)>>), Trace(Text("in"))>>
  IN  CASE c.inner = "while" -> WhileStatement(Below2("j"), BlockStatement(<<Increment("j")>> \o body))
        [] c.inner = "dowhile" -> DoWhileStatement(BlockStatement(<<Increment("j")>> \o body), Below2("j"))
        [] c.inner = "for" ->
             ForStatement(NoNode, Below2("j"), Increment("j").expression, BlockStatement(body))
JumpProgram(c) ==
  Program(<<Var("i", Literal(Num(0))),
            LabeledStatement("a", LabeledStatement("b",
              ForStatement(NoNode, Below2("i"), Increment("i").expression,
                BlockStatement(<<Var("j", Literal(Num(0))),
                                 LabeledStatement("c", InnerLoop(c)),
                                 Trace(Text("out"))>>)))),
            Trace(Text("end"))>>)
\* a: { trace('in'); break a; trace('no'); }  trace('end');
LabelledBlock ==
  Program(<<LabeledStatement("a", BlockStatement(<<Trace(Text("in")), BreakStatement("a"),
                                                   Trace(Text("no"))>>)),
            Trace(Text("end"))>>)
\* a: try { trace('in'); break a; trace('no'); } finally { trace('f'); }  trace('end');
LabelledTry ==
  Program(<<LabeledStatement("a", TryFinally(<<Trace(Text("in")), BreakStatement("a"),
                                               Trace(Text("no"))>>,
                                             NoNode, <<Trace(Text("f"))>>)),
            Trace(Text("end"))>>)
JumpPrograms == {JumpProgram(c) : c \in Jumps} \cup {LabelledBlock, LabelledTry}

\* switch (<d>) { case trace(1): trace('one');  case trace(2): trace('two'); }
\* with `default: trace('d');` as first, middle or last clause, or without;
\* <d> is 1, 2, 3 or '1'.  (trace returns its argument.)
Discriminants == {Num(1), Num(2), Num(3), Str("1")}
DefaultPlaces == {"none", "first", "middle", "last"}
SwitchProgram(d, place) ==
  LET default(at) == IF place = at THEN <<SwitchCase(NoNode, <<Trace(Text("d"))>>)>> ELSE <<>>
      case(n, text) == <<SwitchCase(Call("trace", <<Literal(Num(n))>>), <<Trace(Text(text))>>)>>
  IN  Program(<<SwitchStatement(Literal(d),
                  default("first") \o case(1, "one") \o default("middle") \o case(2, "two")
                  \o default("last"))>>)
SwitchPrograms == {SwitchProgram(d, place) : d \in Discriminants, place \in DefaultPlaces}

\* function f(a) { var x = 1; function g() {} trace(delete <name>); trace(typeof <name>); }
\* f(2);
Locals == {"a", "x", "g"}
DeleteLocal(name) ==
  Program(<<FunctionDeclaration("f", <<Identifier("a")>>,
              <<Var("x", One),
                FunctionDeclaration("g", <<>>, <<>>),
                Trace(UnaryExpression("delete", Identifier(name))),
                Trace(UnaryExpression("typeof", Identifier(name)))>>),
            Stmt(Call("f", <<Literal(Num(2))>>))>>)
DeleteLocals == {DeleteLocal(name) : name \in Locals}

\* var i = 0;
\* for (trace('i'); trace('t') && i !== 1; trace('u') && (i = i + 1)) { trace('b'); <continue> }
\* while (trace('t') && i !== 1) { i = i + 1; trace('b'); <continue> }
\* do { i = i + 1; trace('b'); <continue> } while (trace('t') && i !== 2);
\* trace('end');
\* where <continue> is nothing or `continue; trace('no');`, and for the
\* loop without test
\* function f() { for (trace('i'); ; trace('u') && (i = i + 1)) { trace('b'); if (i === 1) <exit> } }
\* try { f(); } catch (e) { } trace('end');
\* where <exit> is break, return or throw 1.  (trace returns its argument.)
Loops ==
  [loop : {"for", "while", "dowhile"}, jump : {"", "continue"}]
  \cup [loop : {"forever"}, jump : {"break", "return", "throw"}]
And(l, r) == LogicalExpression("&&", l, r)
Traces(t) == Call("trace", <<Text(t)>>)
Until(n) == And(Traces("t"), BinaryExpression("!==", Identifier("i"), Literal(Num(n))))
LoopBody(c) ==
  CASE c.jump = "" -> <<Trace(Text("b"))>>
    [] c.jump = "continue" -> <<Trace(Text("b")), ContinueStatement(""), Trace(Text("no"))>>
    [] OTHER ->
         <<Trace(Text("b")),
           IfStatement(BinaryExpression("===", Identifier("i"), One),
                       CASE c.jump = "break" -> BreakStatement("")
                         [] c.jump = "return" -> ReturnStatement(NoNode)
                         [] c.jump = "throw" -> ThrowStatement(One),
                       NoNode)>>
LoopOf(c) ==
  CASE c.loop = "for" ->
         ForStatement(Traces("i"), Until(1), And(Traces("u"), Increment("i").expression),
                      BlockStatement(LoopBody(c)))
    [] c.loop = "forever" ->
         ForStatement(Traces("i"), NoNode, And(Traces("u"), Increment("i").expression),
                      BlockStatement(LoopBody(c)))
    [] c.loop = "while" -> WhileStatement(Until(1), BlockStatement(<<Increment("i")>> \o LoopBody(c)))
    [] c.loop = "dowhile" ->
         DoWhileStatement(BlockStatement(<<Increment("i")>> \o LoopBody(c)), Until(2))
LoopProgram(c) ==
  Program(<<Var("i", Literal(Num(0)))>>
          \o (IF c.loop = "forever"
              THEN <<FunctionDeclaration("f", <<>>, <<LoopOf(c)>>),
                     TryStatement(<<Stmt(Call("f", <<>>))>>, CatchClause("e", <<>>))>>
              ELSE <<LoopOf(c)>>)
          \o <<Trace(Text("end"))>>)
LoopPrograms == {LoopProgram(c) : c \in Loops}

ControlPrograms ==
  {TryProgram(c) : c \in TryCases}
  \cup LoopPrograms
  \cup ReturnPrograms
  \cup JumpPrograms
  \cup SwitchPrograms
  \cup DeleteLocals

ControlInit ==
  \E code \in ControlPrograms :
    Constructed(code, GuestHost, invoke(Blank, "Interpreter", <<code, GuestHost>>))

ControlSpec == ControlInit /\ [][GuestNext]_vars

(***************************************************************************)
(* Guest programs that call a polyfilled function.                         *)
(***************************************************************************)
\* The first argument of Object.create.
Protos == [null |-> Literal(Null), object |-> ObjectExpression(<<Init1("x", One)>>),
           array |-> ArrayExpression(<<One>>)]
\* var o = Object.create(<proto>); trace(typeof o); trace(o.x);
\* or the same inside a function f whose call is traced.
CreateStatements(proto) ==
  <<Var("o", Static("Object", "create", <<Protos[proto]>>)),
    Trace(UnaryExpression("typeof", Identifier("o"))),
    Trace(Dot("o", "x"))>>
CreateProgram(proto, inner) ==
  IF inner
  THEN Program(<<FunctionDeclaration("f", <<>>,
                   CreateStatements(proto) \o <<ReturnStatement(Text("end"))>>),
                 Trace(Call("f", <<>>))>>)
  ELSE Program(CreateStatements(proto))
CreatePrograms == {CreateProgram(proto, inner) : proto \in DOMAIN Protos, inner \in BOOLEAN}

PolyfillInit ==
  \E code \in CreatePrograms :
    LET new == invoke(Blank, "Polyfilled", <<code, GuestHost>>)
    IN  ~Failed(new) /\ Constructed(code, GuestHost, new.I)

PolyfillSpec == PolyfillInit /\ [][GuestNext]_vars

(***************************************************************************)
(* Updates of an accessor property.                                        *)
(***************************************************************************)
\* What the getter returns: 0, 1, 5 and 1 * 'x' (NaN).
Starts ==
  <<Literal(Num(0)), One, Literal(Num(5)), BinaryExpression("*", One, Text("x"))>>
Updates == {[start |-> s, operator |-> o, prefix |-> p] :
              s \in DOMAIN Starts, o \in {"++", "--"}, p \in BOOLEAN}
\* var q = {};
\* Object.defineProperty(q, 'n', {get: function() { trace('get'); return START; },
\*                                set: function(v) { trace(v); }});
\* trace(q.n++);      (or q.n--, ++q.n, --q.n)
UpdateProgram(u) ==
  Program(<<Var("q", ObjectExpression(<<>>)),
            Stmt(Static("Object", "defineProperty",
                   <<Identifier("q"), Text("n"),
                     ObjectExpression(
                       <<Init1("get", FunctionExpression(<<>>,
                                        <<Trace(Text("get")),
                                          ReturnStatement(Starts[u.start])>>)),
                         Init1("set", FunctionExpression(<<Identifier("v")>>,
                                        <<Trace(Identifier("v"))>>))>>)>>)),
            Trace(UpdateExpression(u.operator, u.prefix, Dot("q", "n")))>>)

UpdateInit ==
  \E u \in Updates :
    Constructed(UpdateProgram(u), GuestHost,
                invoke(Blank, "Interpreter", <<UpdateProgram(u), GuestHost>>))

UpdateSpec == UpdateInit /\ [][GuestNext]_vars

(***************************************************************************)
(* A host that may call a completion callback at any time after it got it, *)
(* any number of times.                                                    *)
(***************************************************************************)
\* var a = sleep(1);  var b = sleep(2);  trace(a);  trace(b);
TwoSleeps ==
  Program(<<Var("a", Call("sleep", <<Literal(Num(1))>>)),
            Var("b", Call("sleep", <<Literal(Num(2))>>)),
            Trace(Identifier("a")),
            Trace(Identifier("b"))>>)
\* What the host passes to a completion callback.
Results == {Num(7), Num(8)}

AsyncInit == Constructed(TwoSleeps, GuestHost, invoke(Blank, "Interpreter", <<TwoSleeps, GuestHost>>))

\* The host calls the k-th completion callback with x.
Complete(k, x) ==
  /\ Install(R(callback(Self, k, x), Undef), "callback", [callback |-> k, value |-> x])
  /\ drive' = drive

AsyncNext ==
  \/ Step
  \/ Run
  \/ \E k \in 1..Len(cbs), x \in Results : Complete(k, x)

AsyncSpec == AsyncInit /\ [][AsyncNext]_vars

(***************************************************************************)
(* acorn's parseStatement, as far as its label stack goes.  The source     *)
(* text is a nest of statements around one break or continue statement:    *)
(*   do <statement> while (false);                                         *)
(*   switch (1) { case 1: <statement> }                                    *)
(*   L: <statement>                                                        *)
(*   (function() { <statement> })();                                       *)
(* given as the words that start them, outermost first.                    *)
(***************************************************************************)
MaxNest == 3
Openers == {"do", "switch", "L", "function"}
JumpWords == [kind : {"break", "continue"}, label : {"", "L", "M"}]
Texts == [nest : UNION {[1..n -> Openers] : n \in 0..MaxNest}, jump : JumpWords]

loopLabel == [name |-> "", kind |-> "loop"]
switchLabel == [name |-> "", kind |-> "switch"]
Parsed(node) == [exc |-> NoExc, node |-> node]
Unparsed(message) == [exc |-> HostError("SyntaxError", message), node |-> NoNode]
Around(body, node) == IF Failed(body) THEN body ELSE Parsed(node)

RECURSIVE parseStatement(_, _, _)
\* A parseFunction that keeps the labels of the enclosing code in scope.
parseFunction_keeps_labels(c, at, labels) == parseStatement(c, at, labels)

\* parseFunction: labels = [] around the body (and the old value afterwards).
parseFunction(c, at, labels) == parseStatement(c, at, <<>>)

\* parseStatement at the at-th word of the text c, with the label stack.
parseStatement(c, at, labels) ==
  LET starttype == IF at <= Len(c.nest) THEN c.nest[at] ELSE c.jump.kind
      \* the token after the colon of a label
      tokType == IF at + 1 <= Len(c.nest) THEN c.nest[at + 1] ELSE c.jump.kind
      isBreak == starttype = "break"
      label == c.jump.label
      \* Verify that there is an actual destination to break or continue to.
      found == \E i \in 1..Len(labels) :
                 /\ label = "" \/ labels[i].name = label
                 /\ \/ labels[i].kind # "" /\ (isBreak \/ labels[i].kind = "loop")
                    \/ label # "" /\ isBreak
      body(inner) == parseStatement(c, at + 1, inner)
      kind == IF tokType = "do" THEN "loop" ELSE IF tokType = "switch" THEN "switch" ELSE ""
  IN  CASE starttype \in {"break", "continue"} ->
             IF ~found THEN Unparsed("Unsyntactic " \o starttype)
             ELSE Parsed(IF isBreak THEN BreakStatement(label) ELSE ContinueStatement(label))
        [] starttype = "do" ->
             LET b == body(Append(labels, loopLabel))
             IN  Around(b, DoWhileStatement(b.node, Literal(Bool(FALSE))))
        [] starttype = "switch" ->
             LET b == body(Append(labels, switchLabel))
             IN  Around(b, SwitchStatement(One, <<SwitchCase(One, <<b.node>>)>>))
        [] starttype = "function" ->
             LET b == parseFunction(c, at + 1, labels)
             IN  Around(b, Stmt(CallExpression(FunctionExpression(<<>>, <<b.node>>), <<>>)))
        [] OTHER ->
             IF \E i \in 1..Len(labels) : labels[i].name = starttype
             THEN Unparsed("Label '" \o starttype \o "' is already declared")
             ELSE LET b == body(Append(labels, [name |-> starttype, kind |-> kind]))
                  IN  Around(b, LabeledStatement(starttype, b.node))

\* parseTopLevel: labels = [], and the one statement of the program.
parse(c) ==
  LET b == parseStatement(c, 1, <<>>)
  IN  Around(b, Program(<<b.node>>))

\* new Interpreter(code) throws what acorn.parse(code) throws.
Unconstructed(c, e) ==
  /\ stack = <<>>
  /\ heap = <<>>
  /\ paused_ = FALSE
  /\ value = Undef
  /\ ast = NoNode
  /\ log = <<>>
  /\ cbs = <<>>
  /\ host = GuestHost
  /\ roots = <<>>
  /\ op = [name |-> "new", arg |-> c]
  /\ ret = [val |-> "throws", exc |-> e]
  /\ drive = NoDrive

ParseInit ==
  \E c \in Texts :
    LET code == parse(c)
    IN  IF Failed(code) THEN Unconstructed(c, code.exc)
        ELSE Constructed(code.node, GuestHost, invoke(Blank, "Interpreter", <<code.node, GuestHost>>))

ParseSpec == ParseInit /\ [][GuestNext]_vars

\* The arguments of the calls of trace so far, in order.
Traced == [j \in 1..Len(log) |-> log[j].args[1]]
Count(seq, x) == Cardinality({j \in 1..Len(seq) : seq[j] = x})

(***************************************************************************)
(* The host converts values: it holds a guest value that guest code built  *)
(* (or a native value that JSON.parse built) of up to two objects or       *)
(* arrays, calls pseudoToNative or nativeToPseudo on it, and may hand the  *)
(* result to the opposite conversion.                                      *)
(***************************************************************************)
MaxConversions == 2
ConvertHost(N) == [sync |-> FALSE, result |-> Num(0), setterReturn |-> Undef, natives |-> N]
\* The conversions the host has called, each with its argument, result
\* and host exception; input is what was built and root the value held.
Converting(g, side, root) ==
  [calls |-> <<>>, input |-> g, side |-> side, root |-> root]

\* The host has constructed an interpreter for the empty program; then
\* guest code built g in its heap, or JSON.parse built g in the host.
Holding(I, g, side) ==
  /\ stack = I.stack /\ paused_ = I.paused_ /\ value = I.value /\ ast = I.ast
  /\ log = I.log /\ cbs = I.cbs /\ roots = I.roots
  /\ heap = I.heap
  /\ host = ConvertHost(IF side = "native" THEN NativeGraph(g) ELSE <<>>)
  /\ op = [name |-> "new", arg |-> EmptyProgram]
  /\ ret = [val |-> Undef, exc |-> NoExc]
  /\ drive = Converting(g, side, IF side = "native" THEN Native(1) ELSE Obj(Len(I.heap) - 1))

ConvertInit ==
  \E g \in Graphs, side \in {"guest", "native"} :
    IF side = "guest"
    THEN Holding(invoke(Blank, "GuestGraph", <<EmptyProgram, GuestHost, g>>), g, side)
    ELSE Holding(invoke(Blank, "Interpreter", <<EmptyProgram, GuestHost>>), g, side)

\* The value the host holds: what was built, or the last result.
Held == IF drive.calls = <<>> THEN drive.root ELSE drive.calls[Len(drive.calls)].val
Called(name, arg, val, exc) ==
  /\ op' = [name |-> name, arg |-> arg]
  /\ ret' = [val |-> val, exc |-> exc]
  /\ drive' = [drive EXCEPT !.calls = Append(@, [name |-> name, arg |-> arg, val |-> val, exc |-> exc])]

\* The host calls pseudoToNative(v) on the guest value it holds.
ToNative ==
  /\ Len(drive.calls) < MaxConversions
  /\ IsObj(Held)
  /\ LET returned(r) ==
           /\ host' = [host EXCEPT !.natives = r.N]
           /\ Called("pseudoToNative", Held, r.val, r.exc)
     IN  returned(invoke(Self, "pseudoToNative", <<host.natives, Held, <<>>>>))
  /\ UNCHANGED <<stack, heap, paused_, value, ast, log, cbs, roots>>

\* The host calls nativeToPseudo(n) on the native value it holds.
ToPseudo ==
  /\ Len(drive.calls) < MaxConversions
  /\ IsNative(Held)
  /\ Len(heap) + Len(host.natives) <= MaxHeap
  /\ LET returned(r) ==
           /\ heap' = r.I.heap
           /\ Called("nativeToPseudo", Held, r.val, r.exc)
     IN  returned(invoke(Self, "nativeToPseudo", <<host.natives, Held, 1>>))
  /\ UNCHANGED <<stack, paused_, value, ast, log, cbs, roots, host>>

ConvertNext ==
  \/ ToNative
  \/ ToPseudo

ConvertSpec == ConvertInit /\ [][ConvertNext]_vars

(***************************************************************************)
(* The host converts guest values to strings: guest code built two arrays  *)
(* or errors that may refer to themselves and to each other, and the host  *)
(* calls String(v) (which is v.toString()) on one and then the other.      *)
(***************************************************************************)
StringInit ==
  \E g \in StringGraphs :
    Holding(invoke(Blank, "StringGraph", <<EmptyProgram, GuestHost, g>>), g, "guest")

\* The object of the graph built: the first is the root, the second follows.
Built(slot) == Obj(drive.root.v + Index(slot) - 1)
\* The host calls String(v) on the first or second object.
HostString(slot) ==
  /\ Len(drive.calls) < MaxConversions
  /\ LET returned(r) == Called("toString", Built(slot), Str(r.val), r.exc)
     IN  returned(invoke(Self, "toString", <<Built(slot), <<>>, {}>>))
  /\ UNCHANGED <<stack, heap, paused_, value, ast, log, cbs, roots, host>>

StringNext == \E slot \in {"first", "second"} : HostString(slot)

StringSpec == StringInit /\ [][StringNext]_vars

(***************************************************************************)
(* acorn's tokenizer on numeric literals.  The input is a sequence of the  *)
(* characters of Chars; tokPos and tokStart are 1-based here.  A number is *)
(* its integer part and the digits of its fraction (no trailing zeros).    *)
(***************************************************************************)
MaxInput == 3
Chars == {"0", "1", "7", "8", "9", "."}
DecimalDigits == {"0", "1", "7", "8", "9"}
DigitVal(ch) ==
  CASE ch = "0" -> 0 [] ch = "1" -> 1 [] ch = "7" -> 7 [] ch = "8" -> 8 [] ch = "9" -> 9
    [] OTHER -> 99
Number(int, frac) == [int |-> int, frac |-> frac]
charAt(input, pos) == IF pos \in 1..Len(input) THEN input[pos] ELSE ""
slice(input, start, end) == SubSeq(input, start, end - 1)

\* readInt(radix) without len: the digits below radix from tokPos on.
RECURSIVE readInt(_, _, _, _)
readInt(input, tokPos, radix, total) ==
  IF DigitVal(charAt(input, tokPos)) >= radix \/ charAt(input, tokPos) = ""
  THEN [tokPos |-> tokPos, total |-> total]
  ELSE readInt(input, tokPos + 1, radix, total * radix + DigitVal(input[tokPos]))

\* parseInt(str, radix) and parseFloat(str) of digits with at most one dot.
parseInt(str, radix) == Number(readInt(str, 1, radix, 0).total, <<>>)
RECURSIVE Trimmed(_)
Trimmed(digits) ==
  IF digits # <<>> /\ digits[Len(digits)] = "0"
  THEN Trimmed(SubSeq(digits, 1, Len(digits) - 1)) ELSE digits
parseFloat(str) ==
  LET int == readInt(str, 1, 10, 0)
      frac == readInt(str, int.tokPos + 1, 10, 0)
  IN  Number(int.total, Trimmed(slice(str, int.tokPos + 1, frac.tokPos)))

\* The tokenizer after finishToken(type, val) or raise(pos, message).
Token(tokPos, type, val) == [tokPos |-> tokPos, tokType |-> type, tokVal |-> val, exc |-> NoExc]
raise(pos, message) ==
  [tokPos |-> pos, tokType |-> "", tokVal |-> Undef, exc |-> HostError("SyntaxError", message)]

\* The exponent and the identifier after the number need letters, which
\* Chars does not have.
readNumber(input, start, strict, startsWithDot) ==
  LET octal == charAt(input, start) = "0"
      int == readInt(input, start, 10, 0)
      dot == charAt(input, int.tokPos) = "."
      frac == readInt(input, int.tokPos + 1, 10, 0)
      tokPos == IF dot THEN frac.tokPos ELSE int.tokPos
      str == slice(input, start, tokPos)
  IN  IF ~startsWithDot /\ int.tokPos = start THEN raise(start, "Invalid number")
      ELSE IF dot THEN Token(tokPos, "num", parseFloat(str))
      ELSE IF ~octal \/ Len(str) = 1 THEN Token(tokPos, "num", parseInt(str, 10))
      ELSE IF (\E i \in 1..Len(str) : str[i] \in {"8", "9"}) \/ strict
      THEN raise(start, "Invalid number")
      ELSE Token(tokPos, "num", parseInt(str, 8))

readToken_dot(input, tokPos, strict) ==
  IF charAt(input, tokPos + 1) \in DecimalDigits THEN readNumber(input, tokPos, strict, TRUE)
  ELSE Token(tokPos + 1, "dot", Undef)

getTokenFromCode(input, tokPos, strict) ==
  IF input[tokPos] = "." THEN readToken_dot(input, tokPos, strict)
  ELSE readNumber(input, tokPos, strict, FALSE)

readToken(input, tokPos, strict) ==
  IF tokPos > Len(input) THEN Token(tokPos, "eof", Undef)
  ELSE getTokenFromCode(input, tokPos, strict)

Inputs == UNION {[1..n -> Chars] : n \in 1..MaxInput}

\* acorn is at the start of the input, in strict code or not.
LexInit ==
  /\ stack = Blank.stack /\ heap = Blank.heap /\ paused_ = Blank.paused_
  /\ value = Blank.value /\ ast = Blank.ast /\ log = Blank.log /\ cbs = Blank.cbs
  /\ roots = Blank.roots /\ host = Blank.host
  /\ op = [name |-> "new", arg |-> EmptyProgram]
  /\ ret = [val |-> Undef, exc |-> NoExc]
  /\ \E input \in Inputs, strict \in BOOLEAN :
       drive = [input |-> input, strict |-> strict, tokStart |-> 1,
                tok |-> Token(1, "", Undef)]

\* The parser asks for the next token.
ReadToken ==
  /\ drive.tok.exc = NoExc /\ drive.tok.tokType # "eof"
  /\ LET tok == readToken(drive.input, drive.tok.tokPos, drive.strict)
     IN  /\ drive' = [drive EXCEPT !.tokStart = drive.tok.tokPos, !.tok = tok]
         /\ op' = [name |-> "readToken", arg |-> drive.tok.tokPos]
         /\ ret' = [val |-> tok.tokVal, exc |-> tok.exc]
  /\ UNCHANGED <<stack, heap, paused_, value, ast, log, cbs, roots, host>>

LexSpec == LexInit /\ [][ReadToken]_vars

(***************************************************************************)
(* Driving by run() alone: run(), and after each pause the pending         *)
(* completion callback, until run() returns false or throws.               *)
(***************************************************************************)
RECURSIVE DriveByRun(_, _)
DriveByRun(I, pauses) ==
  LET r == invoke(I, "run", <<>>)
      pending == {k \in 1..Len(r.I.cbs) : ~r.I.cbs[k]}
  IN  IF Failed(r) THEN [I |-> r.I, raised |-> r.exc]
      ELSE IF r.val /\ pauses > 0 /\ pending # {}
      THEN DriveByRun(callback(r.I, CHOOSE k \in pending : TRUE, r.I.host.result), pauses - 1)
      ELSE [I |-> r.I, raised |-> NoExc]

\* What a host can observe of an interpreter: the value, the calls its
\* native bindings received, every object and scope, and the frames.
Observed(I) == [value |-> I.value, log |-> I.log, heap |-> I.heap, stack |-> I.stack]

\* No frame is left to step: the stack is empty or the Program is done.
Finished == stack = <<>> \/ ProgramDone

Core == <<stack, heap, paused_, value, ast, log, cbs>>

(***************************************************************************)
(* C1.  A program driven by step() alone (and the completion callbacks of  *)
(* its asynchronous calls), once step() has returned false or thrown, has  *)
(* the value, the native-binding calls, the objects and scopes, the frames *)
(* and the host exception of the same program driven by run() alone from   *)
(* the same constructed interpreter.                                       *)
(***************************************************************************)
C1_StepsMatchRun ==
  (/\ drive.calls = {"step"}
   /\ drive.appends = 0
   /\ ret.val = "false" \/ drive.raised # NoExc)
  => LET byRun == DriveByRun(Interpreter(ast, host), MaxCallbacks)
     IN  /\ Observed(Self) = Observed(byRun.I)
         /\ drive.raised = byRun.raised

\* `var t = sleep(10); t + 1;` stepped to the end across its pause.
C1_Witness ==
  /\ drive.calls = {"step"} /\ drive.appends = 0
  /\ op.name = "step" /\ ret.val = "false"
  /\ ast = E7 /\ cbs = <<TRUE>> /\ value = Num(1) /\ log # <<>>

(***************************************************************************)
(* C2.  While paused_ is set and the Program is not done, a call of step() *)
(* or run() returns true and changes neither the frames, nor any object or *)
(* scope, nor value (nor paused_, the log of native calls, the callbacks); *)
(* and paused_ is cleared by a completion callback only.                   *)
(***************************************************************************)
C2_PausedCallsChangeNothing ==
  [][/\ (paused_ /\ ~ProgramDone /\ op'.name \in {"step", "run"})
        => (ret'.val = "true" /\ UNCHANGED Core)
     /\ (paused_ /\ ~paused_') => op'.name = "callback"]_vars

\* step() and run() have both been called while the interpreter was paused.
C2_Witness ==
  /\ paused_ /\ ~ProgramDone
  /\ drive.pausedCalls = {"step", "run"}
  /\ op.name \in {"step", "run"} /\ ret.val = "true"

(***************************************************************************)
(* C3.  The step that calls an asynchronous function calls the host        *)
(* function once, with the guest arguments, hands it one new completion    *)
(* callback and leaves paused_ set (unless the host has already called the *)
(* callback); the callback clears paused_ and stores its argument in the   *)
(* call's frame; the next step() pops that frame and delivers the value to *)
(* the parent frame.  For `var t = sleep(10); t + 1;` completed with 0,    *)
(* the run() before the callback returns true and the run() after it       *)
(* returns false with value 1.                                             *)
(***************************************************************************)
TopCallback == IF stack = <<>> THEN 0 ELSE Cnt(Top(Self), "cb_")

C3_AsyncCall ==
  /\ [][(op'.name = "step" /\ cbs' # cbs)
        => /\ Len(cbs') = Len(cbs) + 1
           /\ Len(log') = Len(log) + 1
           /\ log'[Len(log')].fn = "sleep"
           /\ log'[Len(log')].args = stack'[Len(stack')].arguments_
           /\ Cnt(stack'[Len(stack')], "cb_") = Len(cbs')
           /\ paused_' = ~cbs'[Len(cbs')]]_vars
  /\ [][op'.name = "callback"
        => /\ ~paused_'
           /\ TopCallback # 0 /\ ~cbs[TopCallback]
              => Val(stack'[Len(stack')], "value") = host.result]_vars
  /\ [][(op'.name = "step" /\ ~paused_ /\ TopCallback # 0 /\ cbs[TopCallback])
        => stack' = PopReturn(Self, host.result).stack]_vars
  /\ [](ast = E7 /\ op.name = "run" /\ cbs = <<FALSE>>
        => ret.val = "true" /\ paused_ /\ log = <<[fn |-> "sleep", this |-> Global, args |-> <<Num(10)>>]>>)
  /\ [](ast = E7 /\ op.name = "run" /\ cbs = <<TRUE>> /\ host.result = Num(0)
        => ret.val = "false" /\ value = Num(1) /\ Len(log) = 1)

\* E7 after run(), the callback with 0, and run() again.
C3_Witness ==
  /\ ast = E7 /\ ~host.sync /\ drive.calls = {"run"}
  /\ op.name = "run" /\ ret.val = "false"
  /\ cbs = <<TRUE>> /\ value = Num(1)

(***************************************************************************)
(* C4.  step() returns false only when, on return, the stack is empty or   *)
(* the top frame is the Program frame with done set; and from then on      *)
(* (until appendCode) every step() returns false and changes nothing.      *)
(***************************************************************************)
C4_StepFalseIsFinal ==
  /\ []((op.name = "step" /\ ret.val = "false") => Finished)
  /\ [][(Finished /\ op'.name = "step") => (ret'.val = "false" /\ UNCHANGED Core)]_vars
  /\ [][(Finished /\ ~Finished') => (op'.name = "appendCode" /\ ret'.val = "undefined")]_vars

\* step() has returned false on the finished `var a = 1; a + 2;`.
C4_Witness ==
  /\ op.name = "step" /\ ret.val = "false"
  /\ ast = E1 /\ ProgramDone /\ value = Num(3)

(***************************************************************************)
(* C5 as stated.  run() (of an interpreter constructed with a Program)     *)
(* returns true exactly when the interpreter is paused, and false exactly  *)
(* when the Program frame is done.                                         *)
(***************************************************************************)
C5_RunFalseMeansProgramDone ==
  (op.name = "run" /\ ret.val # "throws" /\ ast.type = "Program")
  => /\ ret.val = "true" <=> paused_
     /\ ret.val = "false" <=> ProgramDone

(***************************************************************************)
(* C5, amended.  run() returns true exactly when the interpreter is        *)
(* paused, and false exactly when it is not paused and no frame is left to *)
(* step: the Program frame is done, or the stack is empty (an uncaught     *)
(* throw emptied it, or the root was not a Program).  It never returns     *)
(* while unpaused work remains.                                            *)
(***************************************************************************)
C5_RunResult ==
  (op.name = "run" /\ ret.val # "throws")
  => /\ ret.val = "true" <=> paused_
     /\ ret.val = "false" <=> (~paused_ /\ Finished)
     /\ paused_ \/ Finished

\* run() returns false on the stack an uncaught throw has emptied.
C5_Witness ==
  /\ op.name = "run" /\ ret.val = "false"
  /\ stack = <<>> /\ drive.raised # NoExc

(***************************************************************************)
(* C6 as stated.  A program run to completion, then appendCode(b) and run  *)
(* to completion again, ends with the value, the global bindings and the   *)
(* native-binding calls of the concatenated program run once.              *)
(***************************************************************************)
C6_AppendMatchesConcatenation ==
  (/\ drive.appends = 1 /\ drive.appendedDone
   /\ ProgramDone /\ ~paused_ /\ drive.raised = NoExc)
  => LET whole == DriveByRun(Interpreter(ast, host), MaxCallbacks).I
     IN  /\ value = whole.value
         /\ heap[GlobalId].properties = whole.heap[GlobalId].properties
         /\ log = whole.log

(***************************************************************************)
(* C7.  appendCode(code) on an empty stack, on a root frame that is not a  *)
(* Program, or with code that is not a Program throws a host Error and     *)
(* changes nothing (no statement appended, nothing hoisted, done as it     *)
(* was); otherwise it returns, the Program body is the old body followed   *)
(* by the statements of code in order, done is false and the frames above  *)
(* the root are untouched.                                                 *)
(***************************************************************************)
C7_AppendCode ==
  [][op'.name = "appendCode"
     => IF stack = <<>> \/ stack[1].node.type # "Program" \/ op'.arg.type # "Program"
        THEN ret'.val = "throws" /\ ret'.exc.cls = "Error" /\ UNCHANGED Core
        ELSE /\ ret'.val = "undefined"
             /\ stack'[1].node.body = stack[1].node.body \o op'.arg.body
             /\ ast'.body = ast.body \o op'.arg.body
             /\ Has(stack'[1], "done") /\ ~stack'[1].done
             /\ Len(stack') = Len(stack)
             /\ \A j \in 2..Len(stack) : stack'[j] = stack[j]]_vars

\* appendCode has thrown on the stack an uncaught throw has emptied.
C7_Witness ==
  /\ op.name = "appendCode" /\ op.arg = TraceTwo /\ ret.val = "throws"
  /\ stack = <<>> /\ drive.raised # NoExc

(***************************************************************************)
(* C8 as stated.  The step that completes a throw statement no try         *)
(* statement encloses empties the stack and throws a host exception: for a *)
(* guest Error named after one of the six error classes that class, for    *)
(* any other guest Error the host Error, both with the guest message; for  *)
(* any other value its string form.  Afterwards step() returns false.      *)
(***************************************************************************)
ThrowPending ==
  /\ stack # <<>> /\ ~paused_
  /\ Top(Self).node.type = "ThrowStatement" /\ Flag(Top(Self), "done_")
  /\ \A j \in 1..Len(stack) : stack[j].node.type # "TryStatement"

C8_ClaimedHostError(x) ==
  IF isa(Self, x, Root(Self, "ERROR"))
  THEN LET name == invoke(Self, "ToStr", <<invoke(Self, "getProperty", <<x, "name">>).val>>)
           message == invoke(Self, "ToStr", <<invoke(Self, "getProperty", <<x, "message">>).val>>)
       IN  HostError(IF name \in ErrorClasses THEN name ELSE "Error", message)
  ELSE HostError("string", invoke(Self, "ToStr", <<x>>))

C8_UncaughtThrow ==
  /\ [][(ThrowPending /\ op'.name = "step")
        => /\ ret'.val = "throws"
           /\ stack' = <<>>
           /\ ret'.exc = C8_ClaimedHostError(Val(Top(Self), "value"))]_vars
  /\ [][(stack = <<>> /\ op'.name = "step") => ret'.val = "false"]_vars

(***************************************************************************)
(* C9 as stated.  In `trace(o).b = trace(c)`, where o.b has a setter, the  *)
(* object is evaluated, then c, then the setter is called once with c and  *)
(* this = o; the program's value is c.                                     *)
(***************************************************************************)
SetterCalls == SelectSeq(log, LAMBDA e : e.fn = "setB")

C9_SetterCalledOnce ==
  \A j \in 1..Len(AssignedValues) :
    LET c == IF AssignedValues[j].type = "Literal" THEN AssignedValues[j].value ELSE Undef
        o == Prop(Self, GlobalId, "o")
    IN  ast = AssignB(AssignedValues[j])
        => /\ Len(SetterCalls) <= 1
           /\ ProgramDone
              => /\ value = c
                 /\ log = <<[fn |-> "trace", this |-> Global, args |-> <<o>>],
                            [fn |-> "trace", this |-> Global, args |-> <<c>>],
                            [fn |-> "setB", this |-> o, args |-> <<c>>]>>

(***************************************************************************)
(* C10 as stated.  `var p = {get x() { return trace(42); }}; p.x;` ends    *)
(* with value 42 after one call of the getter.                             *)
(***************************************************************************)
C10_LiteralGetter ==
  (ast = E3 /\ ProgramDone)
  => /\ value = Num(42)
     /\ log = <<[fn |-> "trace", this |-> Global, args |-> <<Num(42)>>]>>

(***************************************************************************)
(* C11 as stated.  `for (var k in q) trace(k)` over an object q whose      *)
(* properties were defined in any order, enumerable or not: each           *)
(* enumerable own property name is assigned to k exactly once by the time  *)
(* the loop has ended (never more than once before), and no non-enumerable *)
(* name ever is.                                                           *)
(***************************************************************************)
C11_ForInVisitsEnumerable ==
  \A defs \in ForInDefs :
    ast = ForInProgram(defs)
    => \A j \in 1..Len(defs) :
         LET visits == Count(Traced, Str(defs[j][1]))
         IN  IF defs[j][2] THEN visits <= 1 /\ (ProgramDone => visits = 1)
             ELSE visits = 0

\* The guest object a global variable holds.
GlobalObject(n) == heap[Prop(Self, GlobalId, n).v]

(***************************************************************************)
(* C12 as stated.  `delete q.p` on the non-configurable own property p     *)
(* evaluates to false in non-strict code and throws a guest TypeError in   *)
(* strict code (here uncaught, so the host gets a TypeError); in both      *)
(* cases p keeps its value and its descriptor bits.                        *)
(***************************************************************************)
C12_DeleteNonConfigurable ==
  \A strict \in BOOLEAN :
    ast = DeleteProgram(strict)
    => /\ Traced # <<>> => (~strict /\ Traced[1] = Bool(FALSE))
       /\ strict => ~ProgramDone
       /\ (strict /\ stack = <<>>) => drive.raised.cls = "TypeError"
       /\ (Traced # <<>> \/ Finished)
          => /\ Has(GlobalObject("q").properties, "p")
             /\ GlobalObject("q").properties["p"] = Num(1)
             /\ "p" \in GlobalObject("q").notConfigurable
             /\ "p" \in GlobalObject("q").notEnumerable
             /\ "p" \in GlobalObject("q").notWritable

\* The guest Arrays, and the array indices an Array has as properties.
Arrays == {id \in 1..Len(heap) : heap[id].class = "Array"}
Indices(o) == {legalArrayIndex(k) : k \in DOMAIN o.properties} \ {NaN}
Length(o) == o.properties["length"]

Frozen(o) == o.preventExtensions \/ "p" \in o.notWritable
HasGlobal(n) == IsObj(Prop(Self, GlobalId, n))
C14_FrozenObjectUnchanged ==
  /\ [][\A strict \in BOOLEAN, c \in FrozenCases :
          (ast = FrozenProgram(strict, c) /\ HasGlobal("q") /\ Frozen(GlobalObject("q")))
          => heap'[Prop(Self, GlobalId, "q").v] = GlobalObject("q")]_vars
  /\ [](\A strict \in BOOLEAN, c \in FrozenCases :
          (ast = FrozenProgram(strict, c) /\ Traced # <<>>)
          => Traced = <<Str(IF strict THEN "TypeError" ELSE "silent")>>)

(***************************************************************************)
(* C15.  In every reachable state the proto links of the guest objects are *)
(* acyclic: from every object, following proto reaches null within as many *)
(* steps as there are objects; and no step gives an object that exists     *)
(* another proto.  (So the walks of getProperty, hasProperty, isa and      *)
(* isPrototypeOf end.)                                                     *)
(***************************************************************************)
RECURSIVE ReachesNull(_, _)
ReachesNull(v, fuel) ==
  IF ~IsObj(v) THEN TRUE
  ELSE IF fuel = 0 THEN FALSE
  ELSE ReachesNull(heap[v.v].proto, fuel - 1)

C15_ProtoChainsAcyclic ==
  /\ [](\A id \in 1..Len(heap) : ReachesNull(Obj(id), Len(heap)))
  /\ [][\A id \in 1..Len(heap) : heap'[id].proto = heap[id].proto]_vars
  /\ [](drive.raised # Diverges)

\* `function F() {} var p = new F(); var c = Object.create(p); ...` has run:
\* c's chain is p, F.prototype, Object.prototype, and the two calls of
\* isPrototypeOf walked it.
C15_Witness ==
  /\ ast = ChainProgram /\ ProgramDone
  /\ Traced = <<Bool(TRUE), Bool(FALSE)>>
  /\ GlobalObject("c").proto = Prop(Self, GlobalId, "p")
  /\ GlobalObject("p").proto = GlobalObject("F").properties["prototype"]
  /\ heap[GlobalObject("p").proto.v].proto = Obj(roots.OBJECT_PROTO)

(***************************************************************************)
(* C18.  `new F()` makes a fresh object whose prototype is F.prototype and *)
(* runs F with `this` bound to it; the new-expression has the value F      *)
(* returned when that is an object, and is the fresh object when F         *)
(* returned no object (undefined, null, a boolean, a number, a string).    *)
(***************************************************************************)
\* v is the object F received as `this`: made from F.prototype, with the x
\* that F's body stored.
Constructed18(v) ==
  /\ IsObj(v)
  /\ heap[v.v].proto = GlobalObject("F").properties["prototype"]
  /\ Has(heap[v.v].properties, "x") /\ heap[v.v].properties["x"] = Num(1)
C18_NewYieldsThisUnlessObject ==
  \A return \in Returns :
    (ast = ConstructProgram(return) /\ Traced # <<>>)
    => IF return # <<>> /\ return[1].argument.type = "ObjectExpression"
       THEN /\ IsObj(Traced[1]) /\ ~Constructed18(Traced[1])
            /\ heap[Traced[1].v].proto = Obj(roots.OBJECT_PROTO)
       ELSE Constructed18(Traced[1])

(***************************************************************************)
(* C19.  Inside `with (c) body` a read or write of the identifier x        *)
(* resolves to the property x of c when c has x as an own property or      *)
(* through its prototype chain, and to the binding of the enclosing scope  *)
(* only otherwise: the read sees c's x, the write leaves the outer x alone *)
(* and is seen through c.x.                                                *)
(***************************************************************************)
WithTraces ==
  [own |-> <<Str("own"), Str("set"), Str("outer")>>,
   inherited |-> <<Str("proto"), Str("set"), Str("outer")>>,
   absent |-> <<Str("outer"), Undef, Str("set")>>]
C19_WithSeesOwnAndInherited ==
  \A kind \in DOMAIN WithObjects :
    ast = WithProgram(kind)
    => /\ Len(Traced) <= 3
       /\ \A j \in 1..Len(Traced) : Traced[j] = WithTraces[kind][j]

(***************************************************************************)
(* C20.  An assignment to an identifier writes to the nearest enclosing    *)
(* scope that has the name and to no other scope; when no scope has it,    *)
(* non-strict code creates the binding on the global scope, and strict     *)
(* code throws a guest ReferenceError and creates no binding (the function *)
(* of scenario E6 returns "ReferenceError").                               *)
(***************************************************************************)
GlobalBinding(n) == Has(heap[GlobalId].properties, n)
C20_AssignmentFindsItsScope ==
  /\ ast = NestedProgram("x")
     => /\ Prop(Self, GlobalId, "x") \in {Undef, Str("g")}
        /\ \A j \in 1..Len(Traced) : Traced[j] = <<Str("set"), Str("g")>>[j]
  /\ ast = NestedProgram("y")
     => /\ Prop(Self, GlobalId, "x") \in {Undef, Str("g"), Str("set")}
        /\ \A j \in 1..Len(Traced) : Traced[j] = Str("set")
        /\ Traced # <<>> => Prop(Self, GlobalId, "x") = Str("set")
  /\ ast = UndeclaredProgram(FALSE)
     => /\ drive.raised = NoExc
        /\ ProgramDone => value = Str("no") /\ Prop(Self, GlobalId, "undeclared") = Num(1)
  /\ ast = E6
     => /\ drive.raised = NoExc
        /\ ~GlobalBinding("undeclared")
        /\ ProgramDone => value = Str("ReferenceError")

\* Scenario E6 has run to its end with the value "ReferenceError".
C20_Witness ==
  /\ ast = E6 /\ ProgramDone /\ value = Str("ReferenceError")
  /\ ~GlobalBinding("undeclared")

(***************************************************************************)
(* What a value looks like, to the depth of fuel: a primitive is itself;   *)
(* an object is whether it is an array, its length if so, and what its own *)
(* enumerable properties look like.                                        *)
(***************************************************************************)
Deeper == Str("...")
RECURSIVE GuestShape(_, _)
GuestShape(v, fuel) ==
  IF ~IsObj(v) THEN v
  ELSE IF fuel = 0 THEN Deeper
  ELSE LET o == heap[v.v]
       IN  [array |-> o.class = "Array",
            length |-> IF o.class = "Array" THEN o.properties["length"] ELSE Undef,
            fields |-> [k \in (DOMAIN o.properties) \ o.notEnumerable |->
                          GuestShape(o.properties[k], fuel - 1)]]
RECURSIVE NativeShape(_, _)
NativeShape(v, fuel) ==
  IF ~IsNative(v) THEN v
  ELSE IF fuel = 0 THEN Deeper
  ELSE LET o == host.natives[v.v]
       IN  [array |-> o.array,
            length |-> IF o.array THEN Num(o.length) ELSE Undef,
            fields |-> [k \in DOMAIN o.own |-> NativeShape(o.own[k], fuel - 1)]]

(***************************************************************************)
(* C16.  For a JSON-shaped value (numbers, and arrays and plain objects    *)
(* built from them as a tree), pseudoToNative followed by nativeToPseudo   *)
(* gives a guest value that is structurally equal to the first (same keys, *)
(* same array length, same leaves), and nativeToPseudo followed by         *)
(* pseudoToNative gives a native value structurally equal to the first.    *)
(***************************************************************************)
C16_RoundTripIsIdentity ==
  (Len(drive.calls) = 2 /\ TreeGraph(drive.input))
  => /\ drive.calls[1].exc = NoExc /\ drive.calls[2].exc = NoExc
     /\ drive.side = "guest"
        => GuestShape(drive.calls[2].val, 3) = GuestShape(drive.root, 3)
     /\ drive.side = "native"
        => NativeShape(drive.calls[2].val, 3) = NativeShape(drive.root, 3)

\* The same, for the values none of whose keys is `__proto__`.
C16_RoundTripWithoutProtoKey ==
  drive.input.proto = "absent" => C16_RoundTripIsIdentity

(***************************************************************************)
(* C17.  pseudoToNative on a guest object graph, cyclic or not, returns,   *)
(* and the native graph has the topology of the guest graph: following the *)
(* same keys from the two roots pairs every reachable guest object with    *)
(* exactly one native object and every native object with one guest        *)
(* object, so two references to one guest object (on a cycle or merely     *)
(* shared) become two references to one native object.                     *)
(***************************************************************************)
GraphKeys == {"a", "b", "0", "1"}
\* The pairs <<guest value, native value>> found by following the same
\* keys from the pairs of S.
RECURSIVE Corresponding(_)
Corresponding(S) ==
  LET both == {q \in S \X GraphKeys :
                 /\ IsObj(q[1][1]) /\ IsNative(q[1][2])
                 /\ Has(heap[q[1][1].v].properties, q[2])
                 /\ Has(host.natives[q[1][2].v].own, q[2])}
      more == S \cup {<<heap[q[1][1].v].properties[q[2]], host.natives[q[1][2].v].own[q[2]]>> :
                        q \in both}
  IN  IF more = S THEN S ELSE Corresponding(more)
Isomorphic(S) ==
  /\ \A p \in S :
       IF IsObj(p[1])
       THEN IsNative(p[2]) /\ GuestShape(p[1], 1) = NativeShape(p[2], 1)
       ELSE p[2] = p[1]
  /\ \A p \in S, q \in S : (p[1] = q[1]) <=> (p[2] = q[2])
C17_TopologyPreserved ==
  (drive.side = "guest" /\ drive.calls # <<>> /\ drive.input.proto = "absent")
  => /\ drive.calls[1].exc = NoExc
     /\ Isomorphic(Corresponding({<<drive.root, drive.calls[1].val>>}))

\* The same, for the guest graphs in which the second object is not
\* referenced twice from outside itself.
Shared(g) == g.first.a = "second" /\ g.first.b = "second"
C17_TopologyWithoutSharing ==
  ~Shared(drive.input) => C17_TopologyPreserved

(***************************************************************************)
(* C28.  When a try statement has a finalizer, the finalizer runs exactly  *)
(* once each time control leaves the try block or its catch handler, for   *)
(* every completion kind; if the finalizer completes normally the pending  *)
(* abrupt completion goes on with its type and value, and if the finalizer *)
(* completes abruptly its completion replaces the pending one.  So each    *)
(* try program, once done, has traced what these rules give.               *)
(***************************************************************************)
\* What the try statement of case c traces and how it completes.
Handled(c) == c.block = "throw" /\ c.handler # "absent"
TryTrace(c) ==
  (IF Handled(c) THEN <<Str("xb")>> ELSE <<>>)
  \o (IF c.finalizer # "absent" THEN <<Str("f")>> ELSE <<>>)
TryCompletion(c) ==
  IF c.finalizer \notin {"absent", "normal"} THEN [kind |-> c.finalizer, tag |-> "f"]
  ELSE IF Handled(c) THEN [kind |-> c.handler, tag |-> "h"]
  ELSE [kind |-> c.block, tag |-> "b"]
\* What the program of case c traces: the loop runs the try statement twice.
TryProgramTrace(c) ==
  LET once == TryTrace(c)
      end == TryCompletion(c)
  IN  CASE end.kind = "normal" -> once \o <<Str("a")>> \o once \o <<Str("a"), Str("end")>>
        [] end.kind = "continue" -> once \o once \o <<Str("end")>>
        [] end.kind = "break" -> once \o <<Str("end")>>
        [] end.kind = "return" -> once \o <<Str("r" \o end.tag)>>
        [] end.kind = "throw" -> once \o <<Str("o"), Str("x" \o end.tag)>>

C28_FinalizerRunsOnce ==
  \A c \in TryCases :
    (ast = TryProgram(c) /\ ProgramDone) => Traced = TryProgramTrace(c)

\* The same for the try statements whose finalizer does not throw after a
\* block that did not.
C28_FinalizerRunsOnceUnlessItThrows ==
  \A c \in TryCases :
    (ast = TryProgram(c) /\ ProgramDone
     /\ ~(c.finalizer = "throw" /\ c.block # "throw" /\ c.handler # "absent"))
    => Traced = TryProgramTrace(c)

(***************************************************************************)
(* Completions in flight: what the statement on top of the stack is about  *)
(* to unwind with, and which frames are its targets.                       *)
(***************************************************************************)
\* The frame on top is a break, a continue, a return whose argument is
\* evaluated, or a throw whose argument is: its next step calls unwind.
Unwinding ==
  /\ stack # <<>>
  /\ LET f == stack[Len(stack)]
     IN  \/ f.node.type \in {"BreakStatement", "ContinueStatement"}
         \/ f.node.type = "ReturnStatement" /\ (Flag(f, "done_") \/ ~IsNode(f.node.argument))
         \/ f.node.type = "ThrowStatement" /\ Flag(f, "done_")
\* The completion record unwind is called with.
Completion ==
  LET f == stack[Len(stack)]
  IN  CASE f.node.type = "BreakStatement" -> [type |-> BREAK, value |-> Undef, label |-> f.node.label]
        [] f.node.type = "ContinueStatement" ->
             [type |-> CONTINUE, value |-> Undef, label |-> f.node.label]
        [] f.node.type = "ReturnStatement" -> [type |-> RETURN, value |-> Val(f, "value"), label |-> ""]
        [] f.node.type = "ThrowStatement" -> [type |-> THROW, value |-> Val(f, "value"), label |-> ""]
IsTry(f) == f.node.type = "TryStatement"
IsCall(f) == f.node.type \in {"CallExpression", "NewExpression"}
Labelled(f, label) == Has(f, "labels") /\ \E j \in 1..Len(f.labels) : f.labels[j] = label
\* The frame f is where a completion cv ends when no try statement lies
\* before it: the call for a return, the loop, switch or labelled statement
\* for a break or continue.
Target(f, cv) ==
  CASE cv.type = RETURN -> IsCall(f)
    [] cv.type = BREAK -> IF cv.label # "" THEN Labelled(f, cv.label)
                          ELSE Flag(f, "isLoop") \/ Flag(f, "isSwitch")
    [] cv.type = CONTINUE -> IF cv.label # "" THEN Labelled(f, cv.label) ELSE Flag(f, "isLoop")
    [] OTHER -> FALSE
\* The frames above the k-th.
Above(k) == {j \in k + 1..Len(stack) : TRUE}
\* The k-th frame is the innermost try statement that encloses the
\* statement on top, and the completion has no target closer than it.
InnermostTry(k) ==
  /\ IsTry(stack[k])
  /\ \A j \in Above(k) : ~IsTry(stack[j]) /\ ~IsCall(stack[j]) /\ ~Target(stack[j], Completion)
StepTaken == op'.name = "step" /\ ret'.val = "true"

HoldsThrow(f) == IsTry(f) /\ Has(f, "cv") /\ f.cv.type = THROW
RunsHandler == Len(stack') = Len(stack) + 1 /\ stack'[Len(stack')].node.type = "CatchClause"
C29_HandlerRunsOnce ==
  /\ [][(stack # <<>> /\ StepTaken /\ IsTry(stack[Len(stack)]))
        => LET f == stack[Len(stack)]
           IN  IF HoldsThrow(f) /\ ~Flag(f, "doneHandler_") /\ IsNode(f.node.handler)
               THEN /\ RunsHandler
                    /\ stack'[Len(stack')] =
                         MapPut(State(f.node.handler, f.scope), "throwValue", f.cv.value)
                    /\ ~HoldsThrow(stack'[Len(stack)])
                    /\ Flag(stack'[Len(stack)], "doneHandler_")
               ELSE ~RunsHandler]_vars
  /\ [][(stack # <<>> /\ StepTaken /\ stack[Len(stack)].node.type = "CatchClause"
         /\ ~Flag(stack[Len(stack)], "done_"))
        => LET f == stack[Len(stack)]
               scope == stack'[Len(stack')].scope
           IN  /\ Len(stack') = Len(stack) + 1
               /\ stack'[Len(stack')].node = f.node.body
               /\ scope.v = Len(heap) + 1 /\ Len(heap') = Len(heap) + 1
               /\ heap'[scope.v].parentScope = f.scope
               /\ heap'[scope.v].properties = [n \in {f.node.param.name} |-> f.throwValue]]_vars
  /\ [](\A c \in TryCases :
          (ast = TryProgram(c) /\ ProgramDone /\ c.block = "throw" /\ c.handler = "normal"
           /\ c.finalizer \in {"absent", "normal"})
          => Traced = TryProgramTrace(c))

\* try { throw 'xb'; } catch (e) { trace(e); } finally {...}: the body of the
\* handler is on top, in a scope that holds e = 'xb' under the scope of f.
C29_Witness ==
  /\ Len(stack) > 2 /\ op.name = "step"
  /\ stack[Len(stack) - 1].node.type = "CatchClause"
  /\ IsTry(stack[Len(stack) - 2]) /\ IsNode(stack[Len(stack) - 2].node.finalizer)
  /\ Top(Self).node = stack[Len(stack) - 1].node.body
  /\ heap[Top(Self).scope.v].properties = [n \in {"e"} |-> Str("xb")]
  /\ heap[Top(Self).scope.v].parentScope = stack[Len(stack) - 2].scope

(***************************************************************************)
(* C26.  A `return v` with no TryStatement frame in between unwinds to the *)
(* innermost enclosing CallExpression/NewExpression frame: all frames      *)
(* above it are popped, that frame stays on the stack with value = v, and  *)
(* its next step pops it and delivers v to the frame of the caller; a      *)
(* function body that ends without return delivers undefined.              *)
(***************************************************************************)
\* The k-th frame is the call that the return on top returns from.
InnermostCall(k) ==
  /\ IsCall(stack[k])
  /\ \A j \in Above(k) : ~IsTry(stack[j]) /\ ~IsCall(stack[j])
ReturnReachesCall ==
  \A k \in 1..Len(stack) :
    (Unwinding /\ Completion.type = RETURN /\ InnermostCall(k) /\ StepTaken)
    => stack' = [SubSeq(stack, 1, k) EXCEPT ![k] = MapPut(stack[k], "value", Completion.value)]
\* The call on top has executed its function; this step ends it.
CallEnds == Len(stack) > 1 /\ IsCall(stack[Len(stack)]) /\ Flag(stack[Len(stack)], "doneExec_")
Delivers(x) ==
  stack' = [SubSeq(stack, 1, Len(stack) - 1) EXCEPT ![Len(stack) - 1] = MapPut(@, "value", x)]
\* The programs without a return statement have traced what they were given.
NoReturnGivesUndefined ==
  (ast = ReturnProgram("absent", FALSE) /\ ProgramDone) => Traced = <<Undef>>
C26_ReturnDeliversValue ==
  /\ [][ReturnReachesCall]_vars
  /\ [][(CallEnds /\ StepTaken) => Delivers(Val(stack[Len(stack)], "value"))]_vars
  /\ [](NoReturnGivesUndefined)

\* The same, where a NewExpression frame whose value is not an object (by
\* typeof: not an object and not null) delivers the constructed object.
Constructs(f) == Flag(f, "isConstructor") /\ ~(IsObj(Val(f, "value")) \/ Val(f, "value") = Null)
C26_ReturnDeliversValueOrThis ==
  /\ [][ReturnReachesCall]_vars
  /\ [][(CallEnds /\ StepTaken)
        => LET f == stack[Len(stack)]
           IN  Delivers(IF Constructs(f) THEN Val(f, "funcThis_") ELSE Val(f, "value"))]_vars
  /\ [](NoReturnGivesUndefined)

\* `return 's'` inside switch inside while inside F, called as F(), has
\* been stepped: the call frame is on top and holds 's'.
C26_Witness ==
  /\ ast = ReturnProgram("string", FALSE) /\ op.name = "step"
  /\ stack # <<>> /\ Top(Self).node.type = "CallExpression"
  /\ Top(Self).node.callee = Identifier("F")
  /\ Flag(Top(Self), "doneExec_") /\ Val(Top(Self), "value") = Str("s")

(***************************************************************************)
(* C27.  Break and continue target the right frame: an unlabelled break    *)
(* pops the frames up to and including the innermost enclosing loop or     *)
(* switch frame; an unlabelled continue pops the frames above the          *)
(* innermost enclosing loop frame (switch frames are skipped) and leaves   *)
(* that frame on top, so that its next step runs the update or the test;   *)
(* with a label the target is the innermost frame whose labels hold the    *)
(* label, and a statement with several labels is the target of each.       *)
(***************************************************************************)
\* The k-th frame is the target of the break or continue on top.
InnermostTarget(k) ==
  /\ Target(stack[k], Completion)
  /\ \A j \in Above(k) : ~IsTry(stack[j]) /\ ~Target(stack[j], Completion)
JumpReachesTarget ==
  \A k \in 1..Len(stack) :
    (Unwinding /\ Completion.type \in {BREAK, CONTINUE} /\ InnermostTarget(k) /\ StepTaken)
    => stack' = SubSeq(stack, 1, IF Completion.type = BREAK THEN k - 1 ELSE k)
\* What the program of case c traces.
Str1(t) == <<Str(t)>>
JumpProgramTrace(c) ==
  CASE c.label \in {"a", "b"} -> Str1("end")
    [] c.label = "c" \/ c.jump = "continue" -> Str1("out") \o Str1("out") \o Str1("end")
    [] OTHER -> <<Str("in"), Str("in"), Str("out"), Str("in"), Str("in"), Str("out"), Str("end")>>
JumpsTraced ==
  /\ \A c \in Jumps : (ast = JumpProgram(c) /\ ProgramDone) => Traced = JumpProgramTrace(c)
  /\ (ast = LabelledBlock /\ ProgramDone) => Traced = <<Str("in"), Str("end")>>
C27_JumpsReachTheirTarget ==
  /\ [][JumpReachesTarget]_vars
  /\ [](JumpsTraced)
  /\ [](ast = LabelledTry => drive.raised = NoExc)
  /\ []((ast = LabelledTry /\ ProgramDone) => Traced = <<Str("in"), Str("f"), Str("end")>>)

\* The same without the labelled try statement.
C27_JumpsReachLoopsAndBlocks ==
  /\ [][ast # LabelledTry => JumpReachesTarget]_vars
  /\ [](JumpsTraced)

(***************************************************************************)
(* C30.  In a switch statement the case tests are evaluated in source      *)
(* order and compared with the discriminant by strict equality until one   *)
(* matches; from the matching case on the consequents run with             *)
(* fall-through and no further test is evaluated; when no case matches and *)
(* there is a default clause (first, in the middle or last), execution     *)
(* jumps to it and falls through the cases after it; when no case matches  *)
(* and there is no default, no consequent runs.                            *)
(***************************************************************************)
\* What `switch (d)` with its default clause at place traces.
SwitchTrace(d, place) ==
  LET at(p, t) == IF place = p THEN Str1(t) ELSE <<>>
  IN  CASE d = Num(1) -> <<Num(1), Str("one")>> \o at("middle", "d") \o Str1("two") \o at("last", "d")
        [] d = Num(2) -> <<Num(1), Num(2), Str("two")>> \o at("last", "d")
        [] OTHER -> <<Num(1), Num(2)>>
                    \o (CASE place = "first" -> <<Str("d"), Str("one"), Str("two")>>
                          [] place = "middle" -> <<Str("d"), Str("two")>>
                          [] place = "last" -> Str1("d")
                          [] place = "none" -> <<>>)
C30_SwitchFallsThrough ==
  \A d \in Discriminants, place \in DefaultPlaces :
    (ast = SwitchProgram(d, place) /\ ProgramDone) => Traced = SwitchTrace(d, place)

\* The same for the switch statements whose default clause is not the first.
C30_SwitchUnlessDefaultFirst ==
  \A d \in Discriminants, place \in DefaultPlaces \ {"first"} :
    (ast = SwitchProgram(d, place) /\ ProgramDone) => Traced = SwitchTrace(d, place)

(***************************************************************************)
(* C22.  Converting an Array to a string terminates for every array graph, *)
(* including an array that contains itself directly or through other       *)
(* arrays (a = [b], b = [a]): the reentrant occurrence is rendered as      *)
(* "..."; an Error whose name or message refers back to itself renders the *)
(* reentrant occurrence as "[object Error]".                               *)
(***************************************************************************)
\* What the slot of the n-th object of graph g holds, and the text the
\* claim gives the n-th object when the objects of path are being visited.
SlotOf(g, n, k) == (IF n = 1 THEN g.first ELSE g.second)[k]
ClassOf(g, n) == (IF n = 1 THEN g.first ELSE g.second).class
RECURSIVE Rendering(_, _, _)
Rendering(g, n, path) ==
  LET slot(k) == SlotOf(g, n, k)
      at(k) == Index(slot(k))
      element(k) ==
        CASE slot(k) = "absent" -> ""
          [] slot(k) = "leaf" -> "1"
          [] at(k) \in path \cup {n} -> "..."
          [] OTHER -> Rendering(g, at(k), path \cup {n})
      part(k, default) ==
        CASE slot(k) = "absent" -> default
          [] slot(k) = "leaf" -> "1"
          [] OTHER -> Rendering(g, at(k), path \cup {n})
  IN  IF ClassOf(g, n) = "Array"
      THEN IF slot("b") # "absent" THEN element("a") \o "," \o element("b")
           ELSE element("a")
      ELSE IF n \in path THEN "[object Error]"
      ELSE IF part("b", "") # "" THEN part("a", "Error") \o ": " \o part("b", "")
      ELSE part("a", "Error")
Rendered(call) ==
  /\ call.exc = NoExc
  /\ call.val = Str(Rendering(drive.input, call.arg.v - drive.root.v + 1, {}))
C22_ToStringTerminates ==
  \A j \in 1..Len(drive.calls) : Rendered(drive.calls[j])

\* The two objects are arrays that hold each other.
ArrayCycle(g) ==
  /\ g.first.class = "Array" /\ g.second.class = "Array"
  /\ "second" \in {g.first.a, g.first.b} /\ "first" \in {g.second.a, g.second.b}
\* The same where no array contains itself through the other array.
C22_ToStringOfOtherGraphs ==
  ~ArrayCycle(drive.input) => C22_ToStringTerminates

(***************************************************************************)
(* C24.  A numeric literal that starts with 0 and has more digits: in      *)
(* non-strict mode digits 0-7 are read in base 8 (`010` is 8) and a        *)
(* sequence containing 8 or 9 is parsed as decimal; in strict mode both    *)
(* forms are a SyntaxError.                                                *)
(***************************************************************************)
\* The digits of the input from the start of the token read last.
RECURSIVE DigitsFrom(_)
DigitsFrom(pos) ==
  IF charAt(drive.input, pos) \in DecimalDigits THEN <<drive.input[pos]>> \o DigitsFrom(pos + 1)
  ELSE <<>>
NumberText == DigitsFrom(drive.tokStart)
LegacyLiteral ==
  /\ op.name = "readToken"
  /\ Len(NumberText) > 1 /\ NumberText[1] = "0"
  /\ charAt(drive.input, drive.tokStart + Len(NumberText)) # "."
Has89(str) == \E i \in 1..Len(str) : str[i] \in {"8", "9"}
RECURSIVE InBase(_, _)
InBase(str, radix) ==
  IF str = <<>> THEN 0
  ELSE InBase(SubSeq(str, 1, Len(str) - 1), radix) * radix + DigitVal(str[Len(str)])
IsInvalidNumber ==
  ret.exc = HostError("SyntaxError", "Invalid number")
IsNumber(n) ==
  /\ ret.exc = NoExc /\ drive.tok.tokType = "num" /\ ret.val = Number(n, <<>>)
  /\ drive.tok.tokPos = drive.tokStart + Len(NumberText)
C24_LegacyOctalLiterals ==
  LegacyLiteral =>
    IF drive.strict THEN IsInvalidNumber
    ELSE IF Has89(NumberText) THEN IsNumber(InBase(NumberText, 10))
    ELSE IsNumber(InBase(NumberText, 8))

\* The same where a literal with 8 or 9 is refused in non-strict code too.
C24_LegacyOctalOrInvalid ==
  LegacyLiteral =>
    IF drive.strict \/ Has89(NumberText) THEN IsInvalidNumber
    ELSE IsNumber(InBase(NumberText, 8))

(***************************************************************************)
(* C23.  Deleting a local variable (`delete x` where x is a var, function  *)
(* declaration or parameter of the current function) is a parse-time       *)
(* SyntaxError in strict mode; in non-strict mode it is a no-op: the       *)
(* expression yields false and x keeps its binding and value.  The         *)
(* programs are non-strict.                                                *)
(***************************************************************************)
TypeOfLocal(name) == IF name = "g" THEN Str("function") ELSE Str("number")
C23_DeleteLocalIsNoOp ==
  \A name \in Locals :
    (ast = DeleteLocal(name) /\ ProgramDone) =>
      Traced = <<Bool(FALSE), TypeOfLocal(name)>>

\* What the programs trace: delete yields true, and a parameter is gone.
C23_DeleteLocalYieldsTrue ==
  \A name \in Locals :
    (ast = DeleteLocal(name) /\ ProgramDone) =>
      Traced = <<Bool(TRUE), IF name = "a" THEN Str("undefined") ELSE TypeOfLocal(name)>>

(***************************************************************************)
(* C21.  The host stepper never sees polyfill frames: whenever step()      *)
(* returns true and the interpreter is not paused, the frame on top of the *)
(* stack belongs to a node that still carries its location (an `end`       *)
(* offset), never to a location-stripped polyfill node, including while    *)
(* user code is inside a call to a polyfilled function.                    *)
(***************************************************************************)
StepReturnedTrue == op.name = "step" /\ ret.val = "true" /\ ret.exc = NoExc /\ ~paused_
C21_StepperSeesNoPolyfillFrame ==
  StepReturnedTrue => Top(Self).node.end # 0

\* The only polyfill frame step() stops at is the body of a polyfilled
\* function, before its first statement, on a call frame of user code.
EnteredPolyfill ==
  /\ Len(stack) > 1
  /\ Top(Self).node.type = "BlockStatement" /\ Cnt(Top(Self), "n_") = 0
  /\ stack[Len(stack) - 1].node.type = "CallExpression"
  /\ stack[Len(stack) - 1].node.end # 0
C21_StepperSeesPolyfillBody ==
  (StepReturnedTrue /\ Top(Self).node.end = 0) => EnteredPolyfill

(***************************************************************************)
(* C31.  Loop frames follow their mode machine: a for loop evaluates init  *)
(* once, then repeats test, body, update in that order and pops as soon as *)
(* a present test is falsy (a for loop without test never pops by itself,  *)
(* only through break, return or throw); a while loop evaluates its test   *)
(* before every body execution; a do-while executes its body once before   *)
(* the first test; a continue in the body resumes at the update (for) or   *)
(* the test (while, do-while).                                             *)
(***************************************************************************)
\* What the loop program traces.
LoopTrace(c) ==
  LET of(texts) == [j \in 1..Len(texts) |-> Str(texts[j])]
  IN  CASE c.loop = "for" -> of(<<"i", "t", "b", "u", "t", "end">>)
        [] c.loop = "forever" -> of(<<"i", "b", "u", "b", "end">>)
        [] c.loop = "while" -> of(<<"t", "b", "t", "end">>)
        [] c.loop = "dowhile" -> of(<<"b", "t", "b", "t", "end">>)
IsPrefix(seq, whole) == Len(seq) <= Len(whole) /\ seq = SubSeq(whole, 1, Len(seq))
LoopsTraced ==
  \A c \in Loops :
    ast = LoopProgram(c) =>
      /\ IsPrefix(Traced, LoopTrace(c))
      /\ ProgramDone => Traced = LoopTrace(c)
\* A step removes the frame of a for loop that has no test.
ForeverPopped ==
  \E k \in 1..Len(stack) :
    /\ stack[k].node.type = "ForStatement" /\ ~IsNode(stack[k].node.test)
    /\ (Len(stack') < k \/ stack'[k].node # stack[k].node)
ForeverLeftByJump ==
  (op'.name = "step" /\ ForeverPopped) =>
    stack[Len(stack)].node.type \in {"BreakStatement", "ReturnStatement", "ThrowStatement"}
C31_LoopsFollowTheirModes ==
  /\ [](LoopsTraced)
  /\ [][ForeverLeftByJump]_vars
C31_Witness ==
  \E c \in Loops :
    /\ ast = LoopProgram(c) /\ ProgramDone
    /\ c.jump \in {"continue", "throw"}
    /\ Traced = LoopTrace(c)

(***************************************************************************)
(* C32 as stated.  `for (var k in q) trace(k)` over an object q whose       *)
(* prototype is p: no name is assigned to k more than once; a name that is *)
(* an own property of q, enumerable or not, is never taken from p; every   *)
(* enumerable name of p that q does not hide has been assigned once the    *)
(* loop has ended, and after every name of q; and a name deleted from p    *)
(* before the walk reached it is never assigned.                           *)
(***************************************************************************)
NamesOf(defs) == {defs[j][1] : j \in 1..Len(defs)}
Enumerable(defs) == {defs[j][1] : j \in {i \in 1..Len(defs) : defs[i][2]}}
Places(n) == {j \in 1..Len(Traced) : Traced[j] = Str(n)}
C32_ForInWalksTheChain ==
  \A c \in ForInChains :
    ast = ForInChainProgram(c)
    => /\ \A n \in {"a", "b", "c", "constructor"} : Cardinality(Places(n)) <= 1
       /\ \A n \in NamesOf(c.own) \ Enumerable(c.own) : Places(n) = {}
       /\ \A n \in Enumerable(c.proto) \ NamesOf(c.own) :
            /\ \A j \in Places(n) : \A m \in NamesOf(c.own) : \A i \in Places(m) : i < j
            /\ (ProgramDone /\ ~(c.delete /\ n = "b")) => Places(n) # {}
       /\ c.delete => Places("b") = {}

(***************************************************************************)
(* C33 as stated.  In every reachable state a name with a getter or a      *)
(* setter on an object is a key of the object's properties and holds the   *)
(* placeholder, no data value; and in                                      *)
(*   Object.defineProperty(q, 'n', {configurable: true, get: .., set: ..}); *)
(*   delete q.n;  q.n = 5;  trace(q.n);                                    *)
(* the assignment calls neither accessor and makes n the data property 5.  *)
(***************************************************************************)
Accessors(o) == (DOMAIN o.getter) \cup (DOMAIN o.setter)
C33_AccessorsKeepTheirPlaceholder ==
  /\ \A id \in 1..Len(heap) :
       \A n \in Accessors(heap[id]) :
         Has(heap[id].properties, n) /\ heap[id].properties[n] = Undef
  /\ ast = AccessorProgram("deleted")
     => /\ \A j \in 1..Len(Traced) : Traced[j] \notin {Str("get"), Str("set")}
        /\ Traced # <<>> => Traced = <<Num(5)>>
        /\ ProgramDone => /\ Has(GlobalObject("q").properties, "n")
                          /\ GlobalObject("q").properties["n"] = Num(5)

(***************************************************************************)
(* C34.  A call of step() whose handler raises a guest exception           *)
(* (throwException) while a try statement is on the stack returns true to  *)
(* the host and throws nothing: the frames above the innermost try         *)
(* statement are gone, that statement's frame holds the THROW completion,  *)
(* and no frame was pushed.  A handler's host exception other than the     *)
(* step error is what step() throws.                                       *)
(***************************************************************************)
StepRuns == stack # <<>> /\ ~ProgramDone /\ ~paused_
HandlerOutcome == invoke(Self, "stepFunctions_", <<Top(Self), Top(Self).node>>)
Tries == {j \in 1..Len(stack) : stack[j].node.type = "TryStatement"}
NearestTry == CHOOSE j \in Tries : \A k \in Tries : k <= j
ThrowRecorded(try) ==
  /\ Len(stack') = try
  /\ SubSeq(stack', 1, try - 1) = SubSeq(stack, 1, try - 1)
  /\ Has(stack'[try], "cv")
  /\ stack'[try].cv.type = THROW
  /\ stack'[try].node = stack[try].node
C34_StepEatsStepErrors ==
  [][(op'.name = "step" /\ StepRuns)
     => /\ (HandlerOutcome.exc = STEP_ERROR /\ Tries # {})
           => /\ ret' = [val |-> "true", exc |-> NoExc]
              /\ drive'.raised = drive.raised
              /\ ThrowRecorded(NearestTry)
        /\ HandlerOutcome.exc \notin {NoExc, STEP_ERROR}
           => ret' = [val |-> "throws", exc |-> HandlerOutcome.exc]]_vars

\* A step has just recorded a guest exception on a try statement, and
\* returned true.
C34_Witness ==
  /\ op.name = "step"
  /\ ret = [val |-> "true", exc |-> NoExc]
  /\ stack # <<>>
  /\ Top(Self).node.type = "TryStatement"
  /\ Has(Top(Self), "cv")
  /\ Top(Self).cv.type = THROW

(***************************************************************************)
(* C35.  The text of a program is accepted by the parser exactly when its  *)
(* break or continue statement is legal and no label is declared twice in  *)
(* one function body; a text that is not is rejected by a SyntaxError      *)
(* when the interpreter is constructed; and no step of an accepted program *)
(* ends in a host exception: unwind finds the target of the jump.          *)
(* Legal: counting only what the innermost function body encloses, an      *)
(* unlabeled break is in a loop or a switch, an unlabeled continue is in a *)
(* loop, `break L` is in a statement labelled L, and `continue L` is in a  *)
(* loop that L labels.                                                     *)
(***************************************************************************)
\* The words from the from-th on up to the next function (or the jump).
RECURSIVE BodyFrom(_, _)
BodyFrom(nest, from) ==
  IF from > Len(nest) \/ nest[from] = "function" THEN <<>>
  ELSE <<nest[from]>> \o BodyFrom(nest, from + 1)
\* Where the function bodies of the text start.
BodyStarts(nest) == {1} \cup {j + 1 : j \in {i \in 1..Len(nest) : nest[i] = "function"}}
InnermostBody(nest) ==
  BodyFrom(nest, CHOOSE from \in BodyStarts(nest) : \A j \in BodyStarts(nest) : j <= from)
Encloses(body, words) == \E j \in 1..Len(body) : body[j] \in words
LegalJump(body, jump) ==
  CASE jump = [kind |-> "break", label |-> ""] -> Encloses(body, {"do", "switch"})
    [] jump = [kind |-> "continue", label |-> ""] -> Encloses(body, {"do"})
    [] jump.kind = "break" -> Encloses(body, {jump.label})
    [] OTHER -> \E j \in 1..(Len(body) - 1) : body[j] = jump.label /\ body[j + 1] = "do"
DeclaredTwice(body) == \E i, j \in 1..Len(body) : i < j /\ body[i] = "L" /\ body[j] = "L"
Legal(c) ==
  /\ LegalJump(InnermostBody(c.nest), c.jump)
  /\ \A from \in BodyStarts(c.nest) : ~DeclaredTwice(BodyFrom(c.nest, from))
AcceptedTexts == {c \in Texts : ~Failed(parse(c))}
ProgramAtBottom ==
  /\ stack # <<>>
  /\ \A j \in 1..Len(stack) : (stack[j].node.type = "Program") = (j = 1)
Unwinds ==
  \/ Top(Self).node.type \in {"BreakStatement", "ContinueStatement", "ReturnStatement", "ThrowStatement"}
  \/ Top(Self).node.type = "TryStatement" /\ Has(Top(Self), "cv")
  \/ HandlerOutcome.exc # NoExc
\* The stack as the handler of the top frame leaves it, with the frame it
\* returned pushed by step().
HandlerStack ==
  IF IsState(HandlerOutcome.next) THEN Append(HandlerOutcome.I.stack, HandlerOutcome.next)
  ELSE HandlerOutcome.I.stack
OneFrame ==
  /\ Len(HandlerStack) - Len(stack) \in {-1, 0, 1}
  /\ HandlerStack # <<>>
  /\ HandlerStack[1].node = stack[1].node
Flagged == {id \in 1..Len(heap) : heap[id].isGetter}
C37_NoGetterFlagAfterAStep ==
  /\ (op.name = "step" /\ ret.exc = NoExc) => Flagged = {}
  /\ \A applied \in BOOLEAN :
       ast = ApplyProgram(applied)
       => /\ \A j \in 1..Len(Traced) : Traced[j] # Str("G")
          /\ ProgramDone => Traced[Len(Traced)] = Str("function")

(***************************************************************************)
(* C38 as stated.  In `var a = sleep(1); var b = sleep(2); trace(a);       *)
(* trace(b);`, when the host calls the callback of the first sleep again   *)
(* while the interpreter is paused on the second, the interpreter stays    *)
(* paused and its stack is as it was; so the b that the fourth host call,   *)
(* trace(b), receives is always a value that the host passed to a          *)
(* callback.                                                               *)
(***************************************************************************)
StaleCallback ==
  /\ op'.name = "callback"
  /\ op'.arg.callback = 1
  /\ Len(cbs) = 2
  /\ cbs[1]
  /\ ~cbs[2]
  /\ paused_
C38_StaleCallbackIsIgnored ==
  /\ [][StaleCallback => paused_' /\ stack' = stack]_vars
  /\ [](Len(log) = 4 => log[4].fn = "trace" /\ Traced[4] \in Results)

(***************************************************************************)
(* C40.  When the host function of an asynchronous call calls its          *)
(* completion callback before it returns, the step that made the call      *)
(* returns with paused_ false and with the call's frame still on top,      *)
(* complete and holding the callback's argument; the next step pops that   *)
(* frame and hands the argument to the parent, as after a later callback;  *)
(* so one run() of `var t = sleep(10); t + 1;` with such a host answering  *)
(* 0 returns false with value 1.                                           *)
(***************************************************************************)
SynchronousCall == op'.name = "step" /\ host.sync /\ cbs' # cbs
Delivered ==
  /\ Len(stack') = Len(stack) - 1
  /\ Val(stack'[Len(stack')], "value") = host.result
  /\ ~paused_'
C40_SynchronousCallbackDoesNotPause ==
  /\ [][SynchronousCall
        => /\ ~paused_'
           /\ Len(stack') = Len(stack)
           /\ cbs' = Append(cbs, TRUE)
           /\ Cnt(stack'[Len(stack')], "cb_") = Len(cbs')
           /\ Flag(stack'[Len(stack')], "doneExec_")
           /\ Val(stack'[Len(stack')], "value") = host.result]_vars
  /\ [][(op'.name = "step" /\ TopCallback # 0 /\ (host.sync \/ (cbs[TopCallback] /\ ~paused_)))
        => Delivered]_vars
  /\ [](ast = E7 /\ host.sync /\ op.name = "run"
        => ret.val = "false" /\ ~paused_ /\ value = Num(1) /\ cbs = <<TRUE>>)

\* The step after sleep(10) of a synchronous host has handed 0 to the
\* declaration of t.
C40_Witness ==
  /\ ast = E7 /\ host.sync /\ op.name = "step" /\ drive.calls = {"step"}
  /\ cbs = <<TRUE>> /\ ~paused_ /\ stack # <<>>
  /\ Top(Self).node.type = "VariableDeclaration"
  /\ Val(Top(Self), "value") = host.result

(***************************************************************************)
(* C39 as stated.  `trace(q.n++)` (and q.n--, ++q.n, --q.n) on a property  *)
(* whose getter traces 'get' and returns a number and whose setter traces  *)
(* its argument: the host sees 'get' once, then the new number once, then  *)
(* the delivered value (the old number for the postfix forms, the new one  *)
(* for the prefix forms), and nothing else, whatever the number is.        *)
(***************************************************************************)
Old(u) == CASE u.start = 1 -> Num(0) [] u.start = 2 -> Num(1) [] u.start = 3 -> Num(5) [] OTHER -> NaNValue
New(u) ==
  IF Old(u).t = "nan" THEN NaNValue
  ELSE Num(IF u.operator = "++" THEN Old(u).v + 1 ELSE Old(u).v - 1)
Expected(u) == <<Str("get"), New(u), IF u.prefix THEN New(u) ELSE Old(u)>>
C39_UpdateCallsAccessorsOnce ==
  \A u \in Updates :
    ast = UpdateProgram(u)
    => /\ IsPrefix(Traced, Expected(u))
       /\ ProgramDone => Traced = Expected(u)

==============================================================================
